---------------------------- MODULE Spec2Model ----------------------------
(***************************************************************************)
(* A model of the GNCO manager bot: the free-text router of main.py        *)
(* (handle_text, start_cmd, ai_reply and the pure helpers they use).       *)
(*                                                                         *)
(* Texts are sequences of Unicode code points (Python's ord), so that the  *)
(* regular expressions, str.lower, str.strip, str.split and the slices of  *)
(* the source are computed character by character.  The text constants    *)
(* carry the string they encode in the comment above them.                 *)
(***************************************************************************)
EXTENDS Integers, Sequences, FiniteSets, TLC

(***************************************************************************)
(* Bounds of the model.                                                    *)
(***************************************************************************)
\* handler invocations begun in one behaviour of Spec
MaxTurns == 2
\* handler invocations begun in one behaviour of SpecHist
MaxHistTurns == 4
\* handler invocations begun in one behaviour of SpecAi
MaxAiTurns == 1
\* handler invocations begun in one behaviour of SpecHint
MaxHintTurns == 5
\* handler invocations begun in one behaviour of SpecName
MaxNameTurns == 3
\* handler invocations of main.py begun in one behaviour of SpecNoKey
MaxNoKeyTurns == 2
\* ai_reply calls of wa_server.py in one behaviour of SpecNoKey
MaxWaCalls == 2
\* ai_reply calls of wa_server.py in one behaviour of SpecWa
MaxBatchCalls == 3
\* requests to wa_server.py in one behaviour of SpecWa
MaxWaPosts == 2
\* handler invocations begun in one behaviour of SpecContext
MaxContextTurns == 2
\* words of a query to kb_search
MaxQueryWords == 2
\* pieces of an input of normalize_phone
MaxPhoneChunks == 3
\* commands and text messages to the intake form in one behaviour of SpecForm
MaxFormSteps == 7

\* Python's None where a text, a match or an id may stand: no text holds the
\* character -1
None == <<-1>>

(***************************************************************************)
(* Characters and strings.                                                 *)
(***************************************************************************)
Min(S) == CHOOSE x \in S : \A y \in S : x <= y

\* str[:n]
Take(t, n) == SubSeq(t, 1, IF Len(t) < n THEN Len(t) ELSE n)

\* str[-n:] of a list
LastN(s, n) == SubSeq(s, IF Len(s) > n THEN Len(s) - n + 1 ELSE 1, Len(s))

\* the zeros of the decimal digits of Unicode (category Nd) but the ASCII one: each
\* is followed by its digits 1 to 9
DigitZeros ==
    { 1632, 1776, 1984, 2406, 2534, 2662, 2790, 2918, 3046, 3174, 3302, 3430, 3558, 3664, 3792, 3872,
      4160, 4240, 6112, 6160, 6470, 6608, 6784, 6800, 6992, 7088, 7232, 7248, 42528, 43216, 43264,
      43472, 43504, 43600, 44016, 65296, 66720, 68912, 69734, 69872, 69942, 70096, 70384, 70736,
      70864, 71248, 71360, 71472, 71904, 72016, 72784, 73040, 73120, 92768, 92864, 93008, 120782,
      120792, 120802, 120812, 120822, 123200, 123632, 125264, 130032 }

\* what \w of re on a str pattern takes besides the decimal digits and the underscore:
\* the characters str.isalnum holds for that are no decimal digits.  A class of
\* characters is written as the code points where it begins and ends in turn: the
\* first code point of its first range, the first one behind that range, the first
\* code point of its second range, and so on
LetterRanges ==
    << 65, 91, 97, 123, 170, 171, 178, 180, 181, 182, 185, 187, 188, 191, 192, 215, 216, 247, 248,
      706, 710, 722, 736, 741, 748, 749, 750, 751, 880, 885, 886, 888, 890, 894, 895, 896, 902, 903,
      904, 907, 908, 909, 910, 930, 931, 1014, 1015, 1154, 1162, 1328, 1329, 1367, 1369, 1370, 1376,
      1417, 1488, 1515, 1519, 1523, 1568, 1611, 1646, 1648, 1649, 1748, 1749, 1750, 1765, 1767, 1774,
      1776, 1786, 1789, 1791, 1792, 1808, 1809, 1810, 1840, 1869, 1958, 1969, 1970, 1994, 2027, 2036,
      2038, 2042, 2043, 2048, 2070, 2074, 2075, 2084, 2085, 2088, 2089, 2112, 2137, 2144, 2155, 2160,
      2184, 2185, 2191, 2208, 2250, 2308, 2362, 2365, 2366, 2384, 2385, 2392, 2402, 2417, 2433, 2437,
      2445, 2447, 2449, 2451, 2473, 2474, 2481, 2482, 2483, 2486, 2490, 2493, 2494, 2510, 2511, 2524,
      2526, 2527, 2530, 2544, 2546, 2548, 2554, 2556, 2557, 2565, 2571, 2575, 2577, 2579, 2601, 2602,
      2609, 2610, 2612, 2613, 2615, 2616, 2618, 2649, 2653, 2654, 2655, 2674, 2677, 2693, 2702, 2703,
      2706, 2707, 2729, 2730, 2737, 2738, 2740, 2741, 2746, 2749, 2750, 2768, 2769, 2784, 2786, 2809,
      2810, 2821, 2829, 2831, 2833, 2835, 2857, 2858, 2865, 2866, 2868, 2869, 2874, 2877, 2878, 2908,
      2910, 2911, 2914, 2929, 2936, 2947, 2948, 2949, 2955, 2958, 2961, 2962, 2966, 2969, 2971, 2972,
      2973, 2974, 2976, 2979, 2981, 2984, 2987, 2990, 3002, 3024, 3025, 3056, 3059, 3077, 3085, 3086,
      3089, 3090, 3113, 3114, 3130, 3133, 3134, 3160, 3163, 3165, 3166, 3168, 3170, 3192, 3199, 3200,
      3201, 3205, 3213, 3214, 3217, 3218, 3241, 3242, 3252, 3253, 3258, 3261, 3262, 3293, 3295, 3296,
      3298, 3313, 3315, 3332, 3341, 3342, 3345, 3346, 3387, 3389, 3390, 3406, 3407, 3412, 3415, 3416,
      3426, 3440, 3449, 3450, 3456, 3461, 3479, 3482, 3506, 3507, 3516, 3517, 3518, 3520, 3527, 3585,
      3633, 3634, 3636, 3648, 3655, 3713, 3715, 3716, 3717, 3718, 3723, 3724, 3748, 3749, 3750, 3751,
      3761, 3762, 3764, 3773, 3774, 3776, 3781, 3782, 3783, 3804, 3808, 3840, 3841, 3882, 3892, 3904,
      3912, 3913, 3949, 3976, 3981, 4096, 4139, 4159, 4160, 4176, 4182, 4186, 4190, 4193, 4194, 4197,
      4199, 4206, 4209, 4213, 4226, 4238, 4239, 4256, 4294, 4295, 4296, 4301, 4302, 4304, 4347, 4348,
      4681, 4682, 4686, 4688, 4695, 4696, 4697, 4698, 4702, 4704, 4745, 4746, 4750, 4752, 4785, 4786,
      4790, 4792, 4799, 4800, 4801, 4802, 4806, 4808, 4823, 4824, 4881, 4882, 4886, 4888, 4955, 4969,
      4989, 4992, 5008, 5024, 5110, 5112, 5118, 5121, 5741, 5743, 5760, 5761, 5787, 5792, 5867, 5870,
      5881, 5888, 5906, 5919, 5938, 5952, 5970, 5984, 5997, 5998, 6001, 6016, 6068, 6103, 6104, 6108,
      6109, 6128, 6138, 6176, 6265, 6272, 6277, 6279, 6313, 6314, 6315, 6320, 6390, 6400, 6431, 6480,
      6510, 6512, 6517, 6528, 6572, 6576, 6602, 6618, 6619, 6656, 6679, 6688, 6741, 6823, 6824, 6917,
      6964, 6981, 6989, 7043, 7073, 7086, 7088, 7098, 7142, 7168, 7204, 7245, 7248, 7258, 7294, 7296,
      7305, 7312, 7355, 7357, 7360, 7401, 7405, 7406, 7412, 7413, 7415, 7418, 7419, 7424, 7616, 7680,
      7958, 7960, 7966, 7968, 8006, 8008, 8014, 8016, 8024, 8025, 8026, 8027, 8028, 8029, 8030, 8031,
      8062, 8064, 8117, 8118, 8125, 8126, 8127, 8130, 8133, 8134, 8141, 8144, 8148, 8150, 8156, 8160,
      8173, 8178, 8181, 8182, 8189, 8304, 8306, 8308, 8314, 8319, 8330, 8336, 8349, 8450, 8451, 8455,
      8456, 8458, 8468, 8469, 8470, 8473, 8478, 8484, 8485, 8486, 8487, 8488, 8489, 8490, 8494, 8495,
      8506, 8508, 8512, 8517, 8522, 8526, 8527, 8528, 8586, 9312, 9372, 9450, 9472, 10102, 10132,
      11264, 11493, 11499, 11503, 11506, 11508, 11517, 11518, 11520, 11558, 11559, 11560, 11565,
      11566, 11568, 11624, 11631, 11632, 11648, 11671, 11680, 11687, 11688, 11695, 11696, 11703,
      11704, 11711, 11712, 11719, 11720, 11727, 11728, 11735, 11736, 11743, 11823, 11824, 12293,
      12296, 12321, 12330, 12337, 12342, 12344, 12349, 12353, 12439, 12445, 12448, 12449, 12539,
      12540, 12544, 12549, 12592, 12593, 12687, 12690, 12694, 12704, 12736, 12784, 12800, 12832,
      12842, 12872, 12880, 12881, 12896, 12928, 12938, 12977, 12992, 13312, 19904, 19968, 42125,
      42192, 42238, 42240, 42509, 42512, 42528, 42538, 42540, 42560, 42607, 42623, 42654, 42656,
      42736, 42775, 42784, 42786, 42889, 42891, 42955, 42960, 42962, 42963, 42964, 42965, 42970,
      42994, 43010, 43011, 43014, 43015, 43019, 43020, 43043, 43056, 43062, 43072, 43124, 43138,
      43188, 43250, 43256, 43259, 43260, 43261, 43263, 43274, 43302, 43312, 43335, 43360, 43389,
      43396, 43443, 43471, 43472, 43488, 43493, 43494, 43504, 43514, 43519, 43520, 43561, 43584,
      43587, 43588, 43596, 43616, 43639, 43642, 43643, 43646, 43696, 43697, 43698, 43701, 43703,
      43705, 43710, 43712, 43713, 43714, 43715, 43739, 43742, 43744, 43755, 43762, 43765, 43777,
      43783, 43785, 43791, 43793, 43799, 43808, 43815, 43816, 43823, 43824, 43867, 43868, 43882,
      43888, 44003, 44032, 55204, 55216, 55239, 55243, 55292, 63744, 64110, 64112, 64218, 64256,
      64263, 64275, 64280, 64285, 64286, 64287, 64297, 64298, 64311, 64312, 64317, 64318, 64319,
      64320, 64322, 64323, 64325, 64326, 64434, 64467, 64830, 64848, 64912, 64914, 64968, 65008,
      65020, 65136, 65141, 65142, 65277, 65313, 65339, 65345, 65371, 65382, 65471, 65474, 65480,
      65482, 65488, 65490, 65496, 65498, 65501, 65536, 65548, 65549, 65575, 65576, 65595, 65596,
      65598, 65599, 65614, 65616, 65630, 65664, 65787, 65799, 65844, 65856, 65913, 65930, 65932,
      66176, 66205, 66208, 66257, 66273, 66300, 66304, 66340, 66349, 66379, 66384, 66422, 66432,
      66462, 66464, 66500, 66504, 66512, 66513, 66518, 66560, 66718, 66736, 66772, 66776, 66812,
      66816, 66856, 66864, 66916, 66928, 66939, 66940, 66955, 66956, 66963, 66964, 66966, 66967,
      66978, 66979, 66994, 66995, 67002, 67003, 67005, 67072, 67383, 67392, 67414, 67424, 67432,
      67456, 67462, 67463, 67505, 67506, 67515, 67584, 67590, 67592, 67593, 67594, 67638, 67639,
      67641, 67644, 67645, 67647, 67670, 67672, 67703, 67705, 67743, 67751, 67760, 67808, 67827,
      67828, 67830, 67835, 67868, 67872, 67898, 67968, 68024, 68028, 68048, 68050, 68097, 68112,
      68116, 68117, 68120, 68121, 68150, 68160, 68169, 68192, 68223, 68224, 68256, 68288, 68296,
      68297, 68325, 68331, 68336, 68352, 68406, 68416, 68438, 68440, 68467, 68472, 68498, 68521,
      68528, 68608, 68681, 68736, 68787, 68800, 68851, 68858, 68900, 69216, 69247, 69248, 69290,
      69296, 69298, 69376, 69416, 69424, 69446, 69457, 69461, 69488, 69506, 69552, 69580, 69600,
      69623, 69635, 69688, 69714, 69734, 69745, 69747, 69749, 69750, 69763, 69808, 69840, 69865,
      69891, 69927, 69956, 69957, 69959, 69960, 69968, 70003, 70006, 70007, 70019, 70067, 70081,
      70085, 70106, 70107, 70108, 70109, 70113, 70133, 70144, 70162, 70163, 70188, 70272, 70279,
      70280, 70281, 70282, 70286, 70287, 70302, 70303, 70313, 70320, 70367, 70405, 70413, 70415,
      70417, 70419, 70441, 70442, 70449, 70450, 70452, 70453, 70458, 70461, 70462, 70480, 70481,
      70493, 70498, 70656, 70709, 70727, 70731, 70751, 70754, 70784, 70832, 70852, 70854, 70855,
      70856, 71040, 71087, 71128, 71132, 71168, 71216, 71236, 71237, 71296, 71339, 71352, 71353,
      71424, 71451, 71482, 71484, 71488, 71495, 71680, 71724, 71840, 71904, 71914, 71923, 71935,
      71943, 71945, 71946, 71948, 71956, 71957, 71959, 71960, 71984, 71999, 72000, 72001, 72002,
      72096, 72104, 72106, 72145, 72161, 72162, 72163, 72164, 72192, 72193, 72203, 72243, 72250,
      72251, 72272, 72273, 72284, 72330, 72349, 72350, 72368, 72441, 72704, 72713, 72714, 72751,
      72768, 72769, 72794, 72813, 72818, 72848, 72960, 72967, 72968, 72970, 72971, 73009, 73030,
      73031, 73056, 73062, 73063, 73065, 73066, 73098, 73112, 73113, 73440, 73459, 73648, 73649,
      73664, 73685, 73728, 74650, 74752, 74863, 74880, 75076, 77712, 77809, 77824, 78895, 82944,
      83527, 92160, 92729, 92736, 92767, 92784, 92863, 92880, 92910, 92928, 92976, 92992, 92996,
      93019, 93026, 93027, 93048, 93053, 93072, 93760, 93847, 93952, 94027, 94032, 94033, 94099,
      94112, 94176, 94178, 94179, 94180, 94208, 100344, 100352, 101590, 101632, 101641, 110576,
      110580, 110581, 110588, 110589, 110591, 110592, 110883, 110928, 110931, 110948, 110952, 110960,
      111356, 113664, 113771, 113776, 113789, 113792, 113801, 113808, 113818, 119520, 119540, 119648,
      119673, 119808, 119893, 119894, 119965, 119966, 119968, 119970, 119971, 119973, 119975, 119977,
      119981, 119982, 119994, 119995, 119996, 119997, 120004, 120005, 120070, 120071, 120075, 120077,
      120085, 120086, 120093, 120094, 120122, 120123, 120127, 120128, 120133, 120134, 120135, 120138,
      120145, 120146, 120486, 120488, 120513, 120514, 120539, 120540, 120571, 120572, 120597, 120598,
      120629, 120630, 120655, 120656, 120687, 120688, 120713, 120714, 120745, 120746, 120771, 120772,
      120780, 122624, 122655, 123136, 123181, 123191, 123198, 123214, 123215, 123536, 123566, 123584,
      123628, 124896, 124903, 124904, 124908, 124909, 124911, 124912, 124927, 124928, 125125, 125127,
      125136, 125184, 125252, 125259, 125260, 126065, 126124, 126125, 126128, 126129, 126133, 126209,
      126254, 126255, 126270, 126464, 126468, 126469, 126496, 126497, 126499, 126500, 126501, 126503,
      126504, 126505, 126515, 126516, 126520, 126521, 126522, 126523, 126524, 126530, 126531, 126535,
      126536, 126537, 126538, 126539, 126540, 126541, 126544, 126545, 126547, 126548, 126549, 126551,
      126552, 126553, 126554, 126555, 126556, 126557, 126558, 126559, 126560, 126561, 126563, 126564,
      126565, 126567, 126571, 126572, 126579, 126580, 126584, 126585, 126589, 126590, 126591, 126592,
      126602, 126603, 126620, 126625, 126628, 126629, 126634, 126635, 126652, 127232, 127245, 131072,
      173792, 173824, 177977, 177984, 178206, 178208, 183970, 183984, 191457, 194560, 195102, 196608,
      201547 >>

\* str.lower of one character, where it gives one other character: each code point
\* that str.lower changes, followed by the code point it becomes
LowerPairs ==
    << 65, 97, 66, 98, 67, 99, 68, 100, 69, 101, 70, 102, 71, 103, 72, 104, 73, 105, 74, 106, 75, 107,
      76, 108, 77, 109, 78, 110, 79, 111, 80, 112, 81, 113, 82, 114, 83, 115, 84, 116, 85, 117,
      86, 118, 87, 119, 88, 120, 89, 121, 90, 122, 192, 224, 193, 225, 194, 226, 195, 227, 196, 228,
      197, 229, 198, 230, 199, 231, 200, 232, 201, 233, 202, 234, 203, 235, 204, 236, 205, 237,
      206, 238, 207, 239, 208, 240, 209, 241, 210, 242, 211, 243, 212, 244, 213, 245, 214, 246,
      216, 248, 217, 249, 218, 250, 219, 251, 220, 252, 221, 253, 222, 254, 256, 257, 258, 259,
      260, 261, 262, 263, 264, 265, 266, 267, 268, 269, 270, 271, 272, 273, 274, 275, 276, 277,
      278, 279, 280, 281, 282, 283, 284, 285, 286, 287, 288, 289, 290, 291, 292, 293, 294, 295,
      296, 297, 298, 299, 300, 301, 302, 303, 306, 307, 308, 309, 310, 311, 313, 314, 315, 316,
      317, 318, 319, 320, 321, 322, 323, 324, 325, 326, 327, 328, 330, 331, 332, 333, 334, 335,
      336, 337, 338, 339, 340, 341, 342, 343, 344, 345, 346, 347, 348, 349, 350, 351, 352, 353,
      354, 355, 356, 357, 358, 359, 360, 361, 362, 363, 364, 365, 366, 367, 368, 369, 370, 371,
      372, 373, 374, 375, 376, 255, 377, 378, 379, 380, 381, 382, 385, 595, 386, 387, 388, 389,
      390, 596, 391, 392, 393, 598, 394, 599, 395, 396, 398, 477, 399, 601, 400, 603, 401, 402,
      403, 608, 404, 611, 406, 617, 407, 616, 408, 409, 412, 623, 413, 626, 415, 629, 416, 417,
      418, 419, 420, 421, 422, 640, 423, 424, 425, 643, 428, 429, 430, 648, 431, 432, 433, 650,
      434, 651, 435, 436, 437, 438, 439, 658, 440, 441, 444, 445, 452, 454, 453, 454, 455, 457,
      456, 457, 458, 460, 459, 460, 461, 462, 463, 464, 465, 466, 467, 468, 469, 470, 471, 472,
      473, 474, 475, 476, 478, 479, 480, 481, 482, 483, 484, 485, 486, 487, 488, 489, 490, 491,
      492, 493, 494, 495, 497, 499, 498, 499, 500, 501, 502, 405, 503, 447, 504, 505, 506, 507,
      508, 509, 510, 511, 512, 513, 514, 515, 516, 517, 518, 519, 520, 521, 522, 523, 524, 525,
      526, 527, 528, 529, 530, 531, 532, 533, 534, 535, 536, 537, 538, 539, 540, 541, 542, 543,
      544, 414, 546, 547, 548, 549, 550, 551, 552, 553, 554, 555, 556, 557, 558, 559, 560, 561,
      562, 563, 570, 11365, 571, 572, 573, 410, 574, 11366, 577, 578, 579, 384, 580, 649, 581, 652,
      582, 583, 584, 585, 586, 587, 588, 589, 590, 591, 880, 881, 882, 883, 886, 887, 895, 1011,
      902, 940, 904, 941, 905, 942, 906, 943, 908, 972, 910, 973, 911, 974, 913, 945, 914, 946,
      915, 947, 916, 948, 917, 949, 918, 950, 919, 951, 920, 952, 921, 953, 922, 954, 923, 955,
      924, 956, 925, 957, 926, 958, 927, 959, 928, 960, 929, 961, 931, 963, 932, 964, 933, 965,
      934, 966, 935, 967, 936, 968, 937, 969, 938, 970, 939, 971, 975, 983, 984, 985, 986, 987,
      988, 989, 990, 991, 992, 993, 994, 995, 996, 997, 998, 999, 1000, 1001, 1002, 1003, 1004, 1005,
      1006, 1007, 1012, 952, 1015, 1016, 1017, 1010, 1018, 1019, 1021, 891, 1022, 892, 1023, 893,
      1024, 1104, 1025, 1105, 1026, 1106, 1027, 1107, 1028, 1108, 1029, 1109, 1030, 1110, 1031, 1111,
      1032, 1112, 1033, 1113, 1034, 1114, 1035, 1115, 1036, 1116, 1037, 1117, 1038, 1118, 1039, 1119,
      1040, 1072, 1041, 1073, 1042, 1074, 1043, 1075, 1044, 1076, 1045, 1077, 1046, 1078, 1047, 1079,
      1048, 1080, 1049, 1081, 1050, 1082, 1051, 1083, 1052, 1084, 1053, 1085, 1054, 1086, 1055, 1087,
      1056, 1088, 1057, 1089, 1058, 1090, 1059, 1091, 1060, 1092, 1061, 1093, 1062, 1094, 1063, 1095,
      1064, 1096, 1065, 1097, 1066, 1098, 1067, 1099, 1068, 1100, 1069, 1101, 1070, 1102, 1071, 1103,
      1120, 1121, 1122, 1123, 1124, 1125, 1126, 1127, 1128, 1129, 1130, 1131, 1132, 1133, 1134, 1135,
      1136, 1137, 1138, 1139, 1140, 1141, 1142, 1143, 1144, 1145, 1146, 1147, 1148, 1149, 1150, 1151,
      1152, 1153, 1162, 1163, 1164, 1165, 1166, 1167, 1168, 1169, 1170, 1171, 1172, 1173, 1174, 1175,
      1176, 1177, 1178, 1179, 1180, 1181, 1182, 1183, 1184, 1185, 1186, 1187, 1188, 1189, 1190, 1191,
      1192, 1193, 1194, 1195, 1196, 1197, 1198, 1199, 1200, 1201, 1202, 1203, 1204, 1205, 1206, 1207,
      1208, 1209, 1210, 1211, 1212, 1213, 1214, 1215, 1216, 1231, 1217, 1218, 1219, 1220, 1221, 1222,
      1223, 1224, 1225, 1226, 1227, 1228, 1229, 1230, 1232, 1233, 1234, 1235, 1236, 1237, 1238, 1239,
      1240, 1241, 1242, 1243, 1244, 1245, 1246, 1247, 1248, 1249, 1250, 1251, 1252, 1253, 1254, 1255,
      1256, 1257, 1258, 1259, 1260, 1261, 1262, 1263, 1264, 1265, 1266, 1267, 1268, 1269, 1270, 1271,
      1272, 1273, 1274, 1275, 1276, 1277, 1278, 1279, 1280, 1281, 1282, 1283, 1284, 1285, 1286, 1287,
      1288, 1289, 1290, 1291, 1292, 1293, 1294, 1295, 1296, 1297, 1298, 1299, 1300, 1301, 1302, 1303,
      1304, 1305, 1306, 1307, 1308, 1309, 1310, 1311, 1312, 1313, 1314, 1315, 1316, 1317, 1318, 1319,
      1320, 1321, 1322, 1323, 1324, 1325, 1326, 1327, 1329, 1377, 1330, 1378, 1331, 1379, 1332, 1380,
      1333, 1381, 1334, 1382, 1335, 1383, 1336, 1384, 1337, 1385, 1338, 1386, 1339, 1387, 1340, 1388,
      1341, 1389, 1342, 1390, 1343, 1391, 1344, 1392, 1345, 1393, 1346, 1394, 1347, 1395, 1348, 1396,
      1349, 1397, 1350, 1398, 1351, 1399, 1352, 1400, 1353, 1401, 1354, 1402, 1355, 1403, 1356, 1404,
      1357, 1405, 1358, 1406, 1359, 1407, 1360, 1408, 1361, 1409, 1362, 1410, 1363, 1411, 1364, 1412,
      1365, 1413, 1366, 1414, 4256, 11520, 4257, 11521, 4258, 11522, 4259, 11523, 4260, 11524,
      4261, 11525, 4262, 11526, 4263, 11527, 4264, 11528, 4265, 11529, 4266, 11530, 4267, 11531,
      4268, 11532, 4269, 11533, 4270, 11534, 4271, 11535, 4272, 11536, 4273, 11537, 4274, 11538,
      4275, 11539, 4276, 11540, 4277, 11541, 4278, 11542, 4279, 11543, 4280, 11544, 4281, 11545,
      4282, 11546, 4283, 11547, 4284, 11548, 4285, 11549, 4286, 11550, 4287, 11551, 4288, 11552,
      4289, 11553, 4290, 11554, 4291, 11555, 4292, 11556, 4293, 11557, 4295, 11559, 4301, 11565,
      5024, 43888, 5025, 43889, 5026, 43890, 5027, 43891, 5028, 43892, 5029, 43893, 5030, 43894,
      5031, 43895, 5032, 43896, 5033, 43897, 5034, 43898, 5035, 43899, 5036, 43900, 5037, 43901,
      5038, 43902, 5039, 43903, 5040, 43904, 5041, 43905, 5042, 43906, 5043, 43907, 5044, 43908,
      5045, 43909, 5046, 43910, 5047, 43911, 5048, 43912, 5049, 43913, 5050, 43914, 5051, 43915,
      5052, 43916, 5053, 43917, 5054, 43918, 5055, 43919, 5056, 43920, 5057, 43921, 5058, 43922,
      5059, 43923, 5060, 43924, 5061, 43925, 5062, 43926, 5063, 43927, 5064, 43928, 5065, 43929,
      5066, 43930, 5067, 43931, 5068, 43932, 5069, 43933, 5070, 43934, 5071, 43935, 5072, 43936,
      5073, 43937, 5074, 43938, 5075, 43939, 5076, 43940, 5077, 43941, 5078, 43942, 5079, 43943,
      5080, 43944, 5081, 43945, 5082, 43946, 5083, 43947, 5084, 43948, 5085, 43949, 5086, 43950,
      5087, 43951, 5088, 43952, 5089, 43953, 5090, 43954, 5091, 43955, 5092, 43956, 5093, 43957,
      5094, 43958, 5095, 43959, 5096, 43960, 5097, 43961, 5098, 43962, 5099, 43963, 5100, 43964,
      5101, 43965, 5102, 43966, 5103, 43967, 5104, 5112, 5105, 5113, 5106, 5114, 5107, 5115,
      5108, 5116, 5109, 5117, 7312, 4304, 7313, 4305, 7314, 4306, 7315, 4307, 7316, 4308, 7317, 4309,
      7318, 4310, 7319, 4311, 7320, 4312, 7321, 4313, 7322, 4314, 7323, 4315, 7324, 4316, 7325, 4317,
      7326, 4318, 7327, 4319, 7328, 4320, 7329, 4321, 7330, 4322, 7331, 4323, 7332, 4324, 7333, 4325,
      7334, 4326, 7335, 4327, 7336, 4328, 7337, 4329, 7338, 4330, 7339, 4331, 7340, 4332, 7341, 4333,
      7342, 4334, 7343, 4335, 7344, 4336, 7345, 4337, 7346, 4338, 7347, 4339, 7348, 4340, 7349, 4341,
      7350, 4342, 7351, 4343, 7352, 4344, 7353, 4345, 7354, 4346, 7357, 4349, 7358, 4350, 7359, 4351,
      7680, 7681, 7682, 7683, 7684, 7685, 7686, 7687, 7688, 7689, 7690, 7691, 7692, 7693, 7694, 7695,
      7696, 7697, 7698, 7699, 7700, 7701, 7702, 7703, 7704, 7705, 7706, 7707, 7708, 7709, 7710, 7711,
      7712, 7713, 7714, 7715, 7716, 7717, 7718, 7719, 7720, 7721, 7722, 7723, 7724, 7725, 7726, 7727,
      7728, 7729, 7730, 7731, 7732, 7733, 7734, 7735, 7736, 7737, 7738, 7739, 7740, 7741, 7742, 7743,
      7744, 7745, 7746, 7747, 7748, 7749, 7750, 7751, 7752, 7753, 7754, 7755, 7756, 7757, 7758, 7759,
      7760, 7761, 7762, 7763, 7764, 7765, 7766, 7767, 7768, 7769, 7770, 7771, 7772, 7773, 7774, 7775,
      7776, 7777, 7778, 7779, 7780, 7781, 7782, 7783, 7784, 7785, 7786, 7787, 7788, 7789, 7790, 7791,
      7792, 7793, 7794, 7795, 7796, 7797, 7798, 7799, 7800, 7801, 7802, 7803, 7804, 7805, 7806, 7807,
      7808, 7809, 7810, 7811, 7812, 7813, 7814, 7815, 7816, 7817, 7818, 7819, 7820, 7821, 7822, 7823,
      7824, 7825, 7826, 7827, 7828, 7829, 7838, 223, 7840, 7841, 7842, 7843, 7844, 7845, 7846, 7847,
      7848, 7849, 7850, 7851, 7852, 7853, 7854, 7855, 7856, 7857, 7858, 7859, 7860, 7861, 7862, 7863,
      7864, 7865, 7866, 7867, 7868, 7869, 7870, 7871, 7872, 7873, 7874, 7875, 7876, 7877, 7878, 7879,
      7880, 7881, 7882, 7883, 7884, 7885, 7886, 7887, 7888, 7889, 7890, 7891, 7892, 7893, 7894, 7895,
      7896, 7897, 7898, 7899, 7900, 7901, 7902, 7903, 7904, 7905, 7906, 7907, 7908, 7909, 7910, 7911,
      7912, 7913, 7914, 7915, 7916, 7917, 7918, 7919, 7920, 7921, 7922, 7923, 7924, 7925, 7926, 7927,
      7928, 7929, 7930, 7931, 7932, 7933, 7934, 7935, 7944, 7936, 7945, 7937, 7946, 7938, 7947, 7939,
      7948, 7940, 7949, 7941, 7950, 7942, 7951, 7943, 7960, 7952, 7961, 7953, 7962, 7954, 7963, 7955,
      7964, 7956, 7965, 7957, 7976, 7968, 7977, 7969, 7978, 7970, 7979, 7971, 7980, 7972, 7981, 7973,
      7982, 7974, 7983, 7975, 7992, 7984, 7993, 7985, 7994, 7986, 7995, 7987, 7996, 7988, 7997, 7989,
      7998, 7990, 7999, 7991, 8008, 8000, 8009, 8001, 8010, 8002, 8011, 8003, 8012, 8004, 8013, 8005,
      8025, 8017, 8027, 8019, 8029, 8021, 8031, 8023, 8040, 8032, 8041, 8033, 8042, 8034, 8043, 8035,
      8044, 8036, 8045, 8037, 8046, 8038, 8047, 8039, 8072, 8064, 8073, 8065, 8074, 8066, 8075, 8067,
      8076, 8068, 8077, 8069, 8078, 8070, 8079, 8071, 8088, 8080, 8089, 8081, 8090, 8082, 8091, 8083,
      8092, 8084, 8093, 8085, 8094, 8086, 8095, 8087, 8104, 8096, 8105, 8097, 8106, 8098, 8107, 8099,
      8108, 8100, 8109, 8101, 8110, 8102, 8111, 8103, 8120, 8112, 8121, 8113, 8122, 8048, 8123, 8049,
      8124, 8115, 8136, 8050, 8137, 8051, 8138, 8052, 8139, 8053, 8140, 8131, 8152, 8144, 8153, 8145,
      8154, 8054, 8155, 8055, 8168, 8160, 8169, 8161, 8170, 8058, 8171, 8059, 8172, 8165, 8184, 8056,
      8185, 8057, 8186, 8060, 8187, 8061, 8188, 8179, 8486, 969, 8490, 107, 8491, 229, 8498, 8526,
      8544, 8560, 8545, 8561, 8546, 8562, 8547, 8563, 8548, 8564, 8549, 8565, 8550, 8566, 8551, 8567,
      8552, 8568, 8553, 8569, 8554, 8570, 8555, 8571, 8556, 8572, 8557, 8573, 8558, 8574, 8559, 8575,
      8579, 8580, 9398, 9424, 9399, 9425, 9400, 9426, 9401, 9427, 9402, 9428, 9403, 9429, 9404, 9430,
      9405, 9431, 9406, 9432, 9407, 9433, 9408, 9434, 9409, 9435, 9410, 9436, 9411, 9437, 9412, 9438,
      9413, 9439, 9414, 9440, 9415, 9441, 9416, 9442, 9417, 9443, 9418, 9444, 9419, 9445, 9420, 9446,
      9421, 9447, 9422, 9448, 9423, 9449, 11264, 11312, 11265, 11313, 11266, 11314, 11267, 11315,
      11268, 11316, 11269, 11317, 11270, 11318, 11271, 11319, 11272, 11320, 11273, 11321,
      11274, 11322, 11275, 11323, 11276, 11324, 11277, 11325, 11278, 11326, 11279, 11327,
      11280, 11328, 11281, 11329, 11282, 11330, 11283, 11331, 11284, 11332, 11285, 11333,
      11286, 11334, 11287, 11335, 11288, 11336, 11289, 11337, 11290, 11338, 11291, 11339,
      11292, 11340, 11293, 11341, 11294, 11342, 11295, 11343, 11296, 11344, 11297, 11345,
      11298, 11346, 11299, 11347, 11300, 11348, 11301, 11349, 11302, 11350, 11303, 11351,
      11304, 11352, 11305, 11353, 11306, 11354, 11307, 11355, 11308, 11356, 11309, 11357,
      11310, 11358, 11311, 11359, 11360, 11361, 11362, 619, 11363, 7549, 11364, 637, 11367, 11368,
      11369, 11370, 11371, 11372, 11373, 593, 11374, 625, 11375, 592, 11376, 594, 11378, 11379,
      11381, 11382, 11390, 575, 11391, 576, 11392, 11393, 11394, 11395, 11396, 11397, 11398, 11399,
      11400, 11401, 11402, 11403, 11404, 11405, 11406, 11407, 11408, 11409, 11410, 11411,
      11412, 11413, 11414, 11415, 11416, 11417, 11418, 11419, 11420, 11421, 11422, 11423,
      11424, 11425, 11426, 11427, 11428, 11429, 11430, 11431, 11432, 11433, 11434, 11435,
      11436, 11437, 11438, 11439, 11440, 11441, 11442, 11443, 11444, 11445, 11446, 11447,
      11448, 11449, 11450, 11451, 11452, 11453, 11454, 11455, 11456, 11457, 11458, 11459,
      11460, 11461, 11462, 11463, 11464, 11465, 11466, 11467, 11468, 11469, 11470, 11471,
      11472, 11473, 11474, 11475, 11476, 11477, 11478, 11479, 11480, 11481, 11482, 11483,
      11484, 11485, 11486, 11487, 11488, 11489, 11490, 11491, 11499, 11500, 11501, 11502,
      11506, 11507, 42560, 42561, 42562, 42563, 42564, 42565, 42566, 42567, 42568, 42569,
      42570, 42571, 42572, 42573, 42574, 42575, 42576, 42577, 42578, 42579, 42580, 42581,
      42582, 42583, 42584, 42585, 42586, 42587, 42588, 42589, 42590, 42591, 42592, 42593,
      42594, 42595, 42596, 42597, 42598, 42599, 42600, 42601, 42602, 42603, 42604, 42605,
      42624, 42625, 42626, 42627, 42628, 42629, 42630, 42631, 42632, 42633, 42634, 42635,
      42636, 42637, 42638, 42639, 42640, 42641, 42642, 42643, 42644, 42645, 42646, 42647,
      42648, 42649, 42650, 42651, 42786, 42787, 42788, 42789, 42790, 42791, 42792, 42793,
      42794, 42795, 42796, 42797, 42798, 42799, 42802, 42803, 42804, 42805, 42806, 42807,
      42808, 42809, 42810, 42811, 42812, 42813, 42814, 42815, 42816, 42817, 42818, 42819,
      42820, 42821, 42822, 42823, 42824, 42825, 42826, 42827, 42828, 42829, 42830, 42831,
      42832, 42833, 42834, 42835, 42836, 42837, 42838, 42839, 42840, 42841, 42842, 42843,
      42844, 42845, 42846, 42847, 42848, 42849, 42850, 42851, 42852, 42853, 42854, 42855,
      42856, 42857, 42858, 42859, 42860, 42861, 42862, 42863, 42873, 42874, 42875, 42876,
      42877, 7545, 42878, 42879, 42880, 42881, 42882, 42883, 42884, 42885, 42886, 42887,
      42891, 42892, 42893, 613, 42896, 42897, 42898, 42899, 42902, 42903, 42904, 42905, 42906, 42907,
      42908, 42909, 42910, 42911, 42912, 42913, 42914, 42915, 42916, 42917, 42918, 42919,
      42920, 42921, 42922, 614, 42923, 604, 42924, 609, 42925, 620, 42926, 618, 42928, 670,
      42929, 647, 42930, 669, 42931, 43859, 42932, 42933, 42934, 42935, 42936, 42937, 42938, 42939,
      42940, 42941, 42942, 42943, 42944, 42945, 42946, 42947, 42948, 42900, 42949, 642, 42950, 7566,
      42951, 42952, 42953, 42954, 42960, 42961, 42966, 42967, 42968, 42969, 42997, 42998,
      65313, 65345, 65314, 65346, 65315, 65347, 65316, 65348, 65317, 65349, 65318, 65350,
      65319, 65351, 65320, 65352, 65321, 65353, 65322, 65354, 65323, 65355, 65324, 65356,
      65325, 65357, 65326, 65358, 65327, 65359, 65328, 65360, 65329, 65361, 65330, 65362,
      65331, 65363, 65332, 65364, 65333, 65365, 65334, 65366, 65335, 65367, 65336, 65368,
      65337, 65369, 65338, 65370, 66560, 66600, 66561, 66601, 66562, 66602, 66563, 66603,
      66564, 66604, 66565, 66605, 66566, 66606, 66567, 66607, 66568, 66608, 66569, 66609,
      66570, 66610, 66571, 66611, 66572, 66612, 66573, 66613, 66574, 66614, 66575, 66615,
      66576, 66616, 66577, 66617, 66578, 66618, 66579, 66619, 66580, 66620, 66581, 66621,
      66582, 66622, 66583, 66623, 66584, 66624, 66585, 66625, 66586, 66626, 66587, 66627,
      66588, 66628, 66589, 66629, 66590, 66630, 66591, 66631, 66592, 66632, 66593, 66633,
      66594, 66634, 66595, 66635, 66596, 66636, 66597, 66637, 66598, 66638, 66599, 66639,
      66736, 66776, 66737, 66777, 66738, 66778, 66739, 66779, 66740, 66780, 66741, 66781,
      66742, 66782, 66743, 66783, 66744, 66784, 66745, 66785, 66746, 66786, 66747, 66787,
      66748, 66788, 66749, 66789, 66750, 66790, 66751, 66791, 66752, 66792, 66753, 66793,
      66754, 66794, 66755, 66795, 66756, 66796, 66757, 66797, 66758, 66798, 66759, 66799,
      66760, 66800, 66761, 66801, 66762, 66802, 66763, 66803, 66764, 66804, 66765, 66805,
      66766, 66806, 66767, 66807, 66768, 66808, 66769, 66809, 66770, 66810, 66771, 66811,
      66928, 66967, 66929, 66968, 66930, 66969, 66931, 66970, 66932, 66971, 66933, 66972,
      66934, 66973, 66935, 66974, 66936, 66975, 66937, 66976, 66938, 66977, 66940, 66979,
      66941, 66980, 66942, 66981, 66943, 66982, 66944, 66983, 66945, 66984, 66946, 66985,
      66947, 66986, 66948, 66987, 66949, 66988, 66950, 66989, 66951, 66990, 66952, 66991,
      66953, 66992, 66954, 66993, 66956, 66995, 66957, 66996, 66958, 66997, 66959, 66998,
      66960, 66999, 66961, 67000, 66962, 67001, 66964, 67003, 66965, 67004, 68736, 68800,
      68737, 68801, 68738, 68802, 68739, 68803, 68740, 68804, 68741, 68805, 68742, 68806,
      68743, 68807, 68744, 68808, 68745, 68809, 68746, 68810, 68747, 68811, 68748, 68812,
      68749, 68813, 68750, 68814, 68751, 68815, 68752, 68816, 68753, 68817, 68754, 68818,
      68755, 68819, 68756, 68820, 68757, 68821, 68758, 68822, 68759, 68823, 68760, 68824,
      68761, 68825, 68762, 68826, 68763, 68827, 68764, 68828, 68765, 68829, 68766, 68830,
      68767, 68831, 68768, 68832, 68769, 68833, 68770, 68834, 68771, 68835, 68772, 68836,
      68773, 68837, 68774, 68838, 68775, 68839, 68776, 68840, 68777, 68841, 68778, 68842,
      68779, 68843, 68780, 68844, 68781, 68845, 68782, 68846, 68783, 68847, 68784, 68848,
      68785, 68849, 68786, 68850, 71840, 71872, 71841, 71873, 71842, 71874, 71843, 71875,
      71844, 71876, 71845, 71877, 71846, 71878, 71847, 71879, 71848, 71880, 71849, 71881,
      71850, 71882, 71851, 71883, 71852, 71884, 71853, 71885, 71854, 71886, 71855, 71887,
      71856, 71888, 71857, 71889, 71858, 71890, 71859, 71891, 71860, 71892, 71861, 71893,
      71862, 71894, 71863, 71895, 71864, 71896, 71865, 71897, 71866, 71898, 71867, 71899,
      71868, 71900, 71869, 71901, 71870, 71902, 71871, 71903, 93760, 93792, 93761, 93793,
      93762, 93794, 93763, 93795, 93764, 93796, 93765, 93797, 93766, 93798, 93767, 93799,
      93768, 93800, 93769, 93801, 93770, 93802, 93771, 93803, 93772, 93804, 93773, 93805,
      93774, 93806, 93775, 93807, 93776, 93808, 93777, 93809, 93778, 93810, 93779, 93811,
      93780, 93812, 93781, 93813, 93782, 93814, 93783, 93815, 93784, 93816, 93785, 93817,
      93786, 93818, 93787, 93819, 93788, 93820, 93789, 93821, 93790, 93822, 93791, 93823,
      125184, 125218, 125185, 125219, 125186, 125220, 125187, 125221, 125188, 125222, 125189, 125223,
      125190, 125224, 125191, 125225, 125192, 125226, 125193, 125227, 125194, 125228, 125195, 125229,
      125196, 125230, 125197, 125231, 125198, 125232, 125199, 125233, 125200, 125234, 125201, 125235,
      125202, 125236, 125203, 125237, 125204, 125238, 125205, 125239, 125206, 125240, 125207, 125241,
      125208, 125242, 125209, 125243, 125210, 125244, 125211, 125245, 125212, 125246, 125213, 125247,
      125214, 125248, 125215, 125249, 125216, 125250, 125217, 125251 >>

\* the case-ignorable characters
CaseIgnorableRanges ==
    << 39, 40, 46, 47, 58, 59, 94, 95, 96, 97, 168, 169, 173, 174, 175, 176, 180, 181, 183, 185, 688,
      880, 884, 886, 890, 891, 900, 902, 903, 904, 1155, 1162, 1369, 1370, 1375, 1376, 1425, 1470,
      1471, 1472, 1473, 1475, 1476, 1478, 1479, 1480, 1524, 1525, 1536, 1542, 1552, 1563, 1564, 1565,
      1600, 1601, 1611, 1632, 1648, 1649, 1750, 1758, 1759, 1769, 1770, 1774, 1807, 1808, 1809, 1810,
      1840, 1867, 1958, 1969, 2027, 2038, 2042, 2043, 2045, 2046, 2070, 2094, 2137, 2140, 2184, 2185,
      2192, 2194, 2200, 2208, 2249, 2307, 2362, 2363, 2364, 2365, 2369, 2377, 2381, 2382, 2385, 2392,
      2402, 2404, 2417, 2418, 2433, 2434, 2492, 2493, 2497, 2501, 2509, 2510, 2530, 2532, 2558, 2559,
      2561, 2563, 2620, 2621, 2625, 2627, 2631, 2633, 2635, 2638, 2641, 2642, 2672, 2674, 2677, 2678,
      2689, 2691, 2748, 2749, 2753, 2758, 2759, 2761, 2765, 2766, 2786, 2788, 2810, 2816, 2817, 2818,
      2876, 2877, 2879, 2880, 2881, 2885, 2893, 2894, 2901, 2903, 2914, 2916, 2946, 2947, 3008, 3009,
      3021, 3022, 3072, 3073, 3076, 3077, 3132, 3133, 3134, 3137, 3142, 3145, 3146, 3150, 3157, 3159,
      3170, 3172, 3201, 3202, 3260, 3261, 3263, 3264, 3270, 3271, 3276, 3278, 3298, 3300, 3328, 3330,
      3387, 3389, 3393, 3397, 3405, 3406, 3426, 3428, 3457, 3458, 3530, 3531, 3538, 3541, 3542, 3543,
      3633, 3634, 3636, 3643, 3654, 3663, 3761, 3762, 3764, 3773, 3782, 3783, 3784, 3790, 3864, 3866,
      3893, 3894, 3895, 3896, 3897, 3898, 3953, 3967, 3968, 3973, 3974, 3976, 3981, 3992, 3993, 4029,
      4038, 4039, 4141, 4145, 4146, 4152, 4153, 4155, 4157, 4159, 4184, 4186, 4190, 4193, 4209, 4213,
      4226, 4227, 4229, 4231, 4237, 4238, 4253, 4254, 4348, 4349, 4957, 4960, 5906, 5909, 5938, 5940,
      5970, 5972, 6002, 6004, 6068, 6070, 6071, 6078, 6086, 6087, 6089, 6100, 6103, 6104, 6109, 6110,
      6155, 6160, 6211, 6212, 6277, 6279, 6313, 6314, 6432, 6435, 6439, 6441, 6450, 6451, 6457, 6460,
      6679, 6681, 6683, 6684, 6742, 6743, 6744, 6751, 6752, 6753, 6754, 6755, 6757, 6765, 6771, 6781,
      6783, 6784, 6823, 6824, 6832, 6863, 6912, 6916, 6964, 6965, 6966, 6971, 6972, 6973, 6978, 6979,
      7019, 7028, 7040, 7042, 7074, 7078, 7080, 7082, 7083, 7086, 7142, 7143, 7144, 7146, 7149, 7150,
      7151, 7154, 7212, 7220, 7222, 7224, 7288, 7294, 7376, 7379, 7380, 7393, 7394, 7401, 7405, 7406,
      7412, 7413, 7416, 7418, 7468, 7531, 7544, 7545, 7579, 7680, 8125, 8126, 8127, 8130, 8141, 8144,
      8157, 8160, 8173, 8176, 8189, 8191, 8203, 8208, 8216, 8218, 8228, 8229, 8231, 8232, 8234, 8239,
      8288, 8293, 8294, 8304, 8305, 8306, 8319, 8320, 8336, 8349, 8400, 8433, 11388, 11390, 11503,
      11506, 11631, 11632, 11647, 11648, 11744, 11776, 11823, 11824, 12293, 12294, 12330, 12334,
      12337, 12342, 12347, 12348, 12441, 12447, 12540, 12543, 40981, 40982, 42232, 42238, 42508,
      42509, 42607, 42611, 42612, 42622, 42623, 42624, 42652, 42656, 42736, 42738, 42752, 42786,
      42864, 42865, 42888, 42891, 42994, 42997, 43000, 43002, 43010, 43011, 43014, 43015, 43019,
      43020, 43045, 43047, 43052, 43053, 43204, 43206, 43232, 43250, 43263, 43264, 43302, 43310,
      43335, 43346, 43392, 43395, 43443, 43444, 43446, 43450, 43452, 43454, 43471, 43472, 43493,
      43495, 43561, 43567, 43569, 43571, 43573, 43575, 43587, 43588, 43596, 43597, 43632, 43633,
      43644, 43645, 43696, 43697, 43698, 43701, 43703, 43705, 43710, 43712, 43713, 43714, 43741,
      43742, 43756, 43758, 43763, 43765, 43766, 43767, 43867, 43872, 43881, 43884, 44005, 44006,
      44008, 44009, 44013, 44014, 64286, 64287, 64434, 64451, 65024, 65040, 65043, 65044, 65056,
      65072, 65106, 65107, 65109, 65110, 65279, 65280, 65287, 65288, 65294, 65295, 65306, 65307,
      65342, 65343, 65344, 65345, 65392, 65393, 65438, 65440, 65507, 65508, 65529, 65532, 66045,
      66046, 66272, 66273, 66422, 66427, 67456, 67462, 67463, 67505, 67506, 67515, 68097, 68100,
      68101, 68103, 68108, 68112, 68152, 68155, 68159, 68160, 68325, 68327, 68900, 68904, 69291,
      69293, 69446, 69457, 69506, 69510, 69633, 69634, 69688, 69703, 69744, 69745, 69747, 69749,
      69759, 69762, 69811, 69815, 69817, 69819, 69821, 69822, 69826, 69827, 69837, 69838, 69888,
      69891, 69927, 69932, 69933, 69941, 70003, 70004, 70016, 70018, 70070, 70079, 70089, 70093,
      70095, 70096, 70191, 70194, 70196, 70197, 70198, 70200, 70206, 70207, 70367, 70368, 70371,
      70379, 70400, 70402, 70459, 70461, 70464, 70465, 70502, 70509, 70512, 70517, 70712, 70720,
      70722, 70725, 70726, 70727, 70750, 70751, 70835, 70841, 70842, 70843, 70847, 70849, 70850,
      70852, 71090, 71094, 71100, 71102, 71103, 71105, 71132, 71134, 71219, 71227, 71229, 71230,
      71231, 71233, 71339, 71340, 71341, 71342, 71344, 71350, 71351, 71352, 71453, 71456, 71458,
      71462, 71463, 71468, 71727, 71736, 71737, 71739, 71995, 71997, 71998, 71999, 72003, 72004,
      72148, 72152, 72154, 72156, 72160, 72161, 72193, 72203, 72243, 72249, 72251, 72255, 72263,
      72264, 72273, 72279, 72281, 72284, 72330, 72343, 72344, 72346, 72752, 72759, 72760, 72766,
      72767, 72768, 72850, 72872, 72874, 72881, 72882, 72884, 72885, 72887, 73009, 73015, 73018,
      73019, 73020, 73022, 73023, 73030, 73031, 73032, 73104, 73106, 73109, 73110, 73111, 73112,
      73459, 73461, 78896, 78905, 92912, 92917, 92976, 92983, 92992, 92996, 94031, 94032, 94095,
      94112, 94176, 94178, 94179, 94181, 110576, 110580, 110581, 110588, 110589, 110591, 113821,
      113823, 113824, 113828, 118528, 118574, 118576, 118599, 119143, 119146, 119155, 119171, 119173,
      119180, 119210, 119214, 119362, 119365, 121344, 121399, 121403, 121453, 121461, 121462, 121476,
      121477, 121499, 121504, 121505, 121520, 122880, 122887, 122888, 122905, 122907, 122914, 122915,
      122917, 122918, 122923, 123184, 123198, 123566, 123567, 123628, 123632, 125136, 125143, 125252,
      125260, 127995, 128000, 917505, 917506, 917536, 917632, 917760, 918000 >>

\* the cased characters that are not case-ignorable
CasedRanges ==
    << 65, 91, 97, 123, 170, 171, 181, 182, 186, 187, 192, 215, 216, 247, 248, 443, 444, 448, 452,
      660, 661, 688, 880, 884, 886, 888, 891, 894, 895, 896, 902, 903, 904, 907, 908, 909, 910, 930,
      931, 1014, 1015, 1154, 1162, 1328, 1329, 1367, 1376, 1417, 4256, 4294, 4295, 4296, 4301, 4302,
      4304, 4347, 4349, 4352, 5024, 5110, 5112, 5118, 7296, 7305, 7312, 7355, 7357, 7360, 7424, 7468,
      7531, 7544, 7545, 7579, 7680, 7958, 7960, 7966, 7968, 8006, 8008, 8014, 8016, 8024, 8025, 8026,
      8027, 8028, 8029, 8030, 8031, 8062, 8064, 8117, 8118, 8125, 8126, 8127, 8130, 8133, 8134, 8141,
      8144, 8148, 8150, 8156, 8160, 8173, 8178, 8181, 8182, 8189, 8450, 8451, 8455, 8456, 8458, 8468,
      8469, 8470, 8473, 8478, 8484, 8485, 8486, 8487, 8488, 8489, 8490, 8494, 8495, 8501, 8505, 8506,
      8508, 8512, 8517, 8522, 8526, 8527, 8544, 8576, 8579, 8581, 9398, 9450, 11264, 11388, 11390,
      11493, 11499, 11503, 11506, 11508, 11520, 11558, 11559, 11560, 11565, 11566, 42560, 42606,
      42624, 42652, 42786, 42864, 42865, 42888, 42891, 42895, 42896, 42955, 42960, 42962, 42963,
      42964, 42965, 42970, 42997, 42999, 43002, 43003, 43824, 43867, 43872, 43881, 43888, 43968,
      64256, 64263, 64275, 64280, 65313, 65339, 65345, 65371, 66560, 66640, 66736, 66772, 66776,
      66812, 66928, 66939, 66940, 66955, 66956, 66963, 66964, 66966, 66967, 66978, 66979, 66994,
      66995, 67002, 67003, 67005, 68736, 68787, 68800, 68851, 71840, 71904, 93760, 93824, 119808,
      119893, 119894, 119965, 119966, 119968, 119970, 119971, 119973, 119975, 119977, 119981, 119982,
      119994, 119995, 119996, 119997, 120004, 120005, 120070, 120071, 120075, 120077, 120085, 120086,
      120093, 120094, 120122, 120123, 120127, 120128, 120133, 120134, 120135, 120138, 120145, 120146,
      120486, 120488, 120513, 120514, 120539, 120540, 120571, 120572, 120597, 120598, 120629, 120630,
      120655, 120656, 120687, 120688, 120713, 120714, 120745, 120746, 120771, 120772, 120780, 122624,
      122634, 122635, 122655, 125184, 125252, 127280, 127306, 127312, 127338, 127344, 127370 >>

\* the characters of a class written as `bounds`
CharsOf(bounds) == UNION {bounds[2 * k - 1]..(bounds[2 * k] - 1) : k \in 1..(Len(bounds) \div 2)}

\* \d of re on a str pattern: 0-9 and the decimal digits of the other scripts, the
\* first of which is U+0660
IsDigit(c) == c \in 48..57 \/ (c >= 1632 /\ \E z \in DigitZeros : c \in z..(z + 9))

\* the characters of \w that are neither decimal digits nor the underscore
Letters == CharsOf(LetterRanges)
IsLetter(c) == c \in Letters

\* \w of re on a str pattern
IsWordChar(c) == IsLetter(c) \/ IsDigit(c) \/ c = 95

\* the white space of str.strip and str.split, which is what \s of re takes
WhiteSpace ==
    (9..13) \cup (28..32) \cup {133, 160, 5760} \cup (8192..8202)
            \cup {8232, 8233, 8239, 8287, 12288}

\* \s of re on a str pattern
IsSpace(c) == c \in WhiteSpace

\* the texts of a list one after the other
RECURSIVE Flatten(_)
Flatten(seqs) == IF seqs = <<>> THEN <<>> ELSE Head(seqs) \o Flatten(Tail(seqs))

\* the first position at or after i that holds no character of class In(_), Len(t)+1 if none
RunEnd(t, i, In(_)) ==
    LET stop == {j \in i..Len(t) : ~In(t[j])}
    IN  IF stop = {} THEN Len(t) + 1 ELSE Min(stop)

\* the function that takes each odd entry of `pairs` to the entry behind it
Pairing(pairs) ==
    [c \in {pairs[2 * k - 1] : k \in 1..(Len(pairs) \div 2)} |->
        pairs[2 * (CHOOSE k \in 1..(Len(pairs) \div 2) : pairs[2 * k - 1] = c)]]

\* the characters str.lower changes into one other character, with that character
LowerCase == Pairing(LowerPairs)

\* f[c] where f is defined, c elsewhere
Image(f, c) == IF c \in DOMAIN f THEN f[c] ELSE c

\* chr(c).lower(): the text str.lower makes of the one character c.  The lower case of
\* U+0130 is "i" and the combining dot above (U+0307)
LowerChar(c) == IF c = 304 THEN <<105, 775>> ELSE <<Image(LowerCase, c)>>

\* c is of the class written as `bounds`
Within(bounds, c) == \E k \in 1..(Len(bounds) \div 2) : bounds[2 * k - 1] <= c /\ c < bounds[2 * k]

\* "cased" for a cased character that is not case-ignorable, "ignorable" for a
\* case-ignorable one, "other" for the rest
CaseClass(cased, ignorable, c) ==
    IF Within(cased, c) THEN "cased" ELSE IF Within(ignorable, c) THEN "ignorable" ELSE "other"

\* the classes of the characters of t
CaseClasses(t) == [j \in 1..Len(t) |-> CaseClass(CasedRanges, CaseIgnorableRanges, t[j])]

\* position i of a text of classes `cl` ends a word: the nearest character before it
\* that is not case-ignorable is cased, and the nearest one behind it, if there is
\* one, is not
EndsWord(cl, i) ==
    /\ \E j \in 1..(i - 1) : cl[j] = "cased" /\ \A k \in (j + 1)..(i - 1) : cl[k] = "ignorable"
    /\ ~\E j \in (i + 1)..Len(cl) : cl[j] = "cased" /\ \A k \in (i + 1)..(j - 1) : cl[k] = "ignorable"

\* the capital sigma t[i] becomes the final sigma
FinalSigma(t, i) == EndsWord(CaseClasses(t), i)

\* the texts `parts` one after the other
Concat(parts) ==
    IF \A i \in 1..Len(parts) : Len(parts[i]) = 1 THEN [i \in 1..Len(parts) |-> parts[i][1]]
    ELSE Flatten(parts)

\* str.lower: character by character, but for the capital sigma (U+03A3), which
\* becomes the final sigma (U+03C2) at the end of a word
Lower(t) ==
    Concat([i \in 1..Len(t) |-> IF t[i] = 931 /\ FinalSigma(t, i) THEN <<962>> ELSE LowerChar(t[i])])

\* flags=re.I for a lower-case Cyrillic letter of a pattern: it matches the characters
\* of its simple lower case, and the letters U+1C80..U+1C86 match the letter they are a
\* variant of (ve, de, o, es, te, te, hard sign).  The result is the letter matched.
IgnoreCaseChar(c) ==
    IF c \in 7296..7302 THEN <<1074, 1076, 1086, 1089, 1090, 1090, 1098>>[c - 7295]
    ELSE LowerChar(c)[1]

\* the text as a pattern under re.I sees it, position by position
IgnoreCase(t) == [i \in 1..Len(t) |-> IgnoreCaseChar(t[i])]

\* str.strip
Strip(t) ==
    IF \A i \in 1..Len(t) : IsSpace(t[i]) THEN <<>>
    ELSE LET lo == CHOOSE i \in 1..Len(t) :
                       ~IsSpace(t[i]) /\ \A j \in 1..(i - 1) : IsSpace(t[j])
             hi == CHOOSE i \in 1..Len(t) :
                       ~IsSpace(t[i]) /\ \A j \in (i + 1)..Len(t) : IsSpace(t[j])
         IN  SubSeq(t, lo, hi)

\* the literal w stands in t at position i
LitAt(t, i, w) == i + Len(w) - 1 <= Len(t) /\ SubSeq(t, i, i + Len(w) - 1) = w

\* \b of re between t[i-1] and t[i] (i in 1..Len(t)+1): one of the two is a word
\* character and the other is not, or is not there
WordBoundary(t, i) ==
    Cardinality({j \in {i - 1, i} \cap (1..Len(t)) : IsWordChar(t[j])}) = 1

\* str(n) of a natural number, as decimal digits
RECURSIVE Decimal(_)
Decimal(n) == IF n < 10 THEN <<48 + n>> ELSE Append(Decimal(n \div 10), 48 + (n % 10))

\* sep.join(parts)
RECURSIVE Join(_, _)
Join(parts, sep) ==
    IF parts = <<>> THEN <<>>
    ELSE IF Len(parts) = 1 THEN parts[1]
    ELSE parts[1] \o sep \o Join(Tail(parts), sep)

(***************************************************************************)
(* The patterns of the filters.                                            *)
(***************************************************************************)
\* DIY_PATTERNS (main.py, 105-113).  Each pattern is \b word (\s+ word)* \b; a pattern
\* is written as the sequence of its words, each word as the set of its alternatives:
\*   \bкак\s+(починить|ремонтировать|заменить|разобрать|снять|поставить|натянуть|отрегулировать)\b
\*   \bинструкц(ия|ии)\b   \bпошагов(о|ая)\b   \bсвоими\s+руками\b
\*   \bчто\s+нужно\s+сделать\b   \bкакие\s+инструменты\b   \bгайд\b
DIY_PATTERNS ==
    <<
      <<
         {
           <<1082, 1072, 1082>>  \* "как"
         },
         {
           <<1087, 1086, 1095, 1080, 1085, 1080, 1090, 1100>>,  \* "починить"
           <<1088, 1077, 1084, 1086, 1085, 1090, 1080, 1088, 1086, 1074, 1072, 1090, 1100>>,  \* "ремонтировать"
           <<1079, 1072, 1084, 1077, 1085, 1080, 1090, 1100>>,  \* "заменить"
           <<1088, 1072, 1079, 1086, 1073, 1088, 1072, 1090, 1100>>,  \* "разобрать"
           <<1089, 1085, 1103, 1090, 1100>>,  \* "снять"
           <<1087, 1086, 1089, 1090, 1072, 1074, 1080, 1090, 1100>>,  \* "поставить"
           <<1085, 1072, 1090, 1103, 1085, 1091, 1090, 1100>>,  \* "натянуть"
           <<1086, 1090, 1088, 1077, 1075, 1091, 1083, 1080, 1088, 1086, 1074, 1072, 1090, 1100>>  \* "отрегулировать"
         }
      >>,
      <<
         {
           <<1080, 1085, 1089, 1090, 1088, 1091, 1082, 1094, 1080, 1103>>,  \* "инструкция"
           <<1080, 1085, 1089, 1090, 1088, 1091, 1082, 1094, 1080, 1080>>  \* "инструкции"
         }
      >>,
      <<
         {
           <<1087, 1086, 1096, 1072, 1075, 1086, 1074, 1086>>,  \* "пошагово"
           <<1087, 1086, 1096, 1072, 1075, 1086, 1074, 1072, 1103>>  \* "пошаговая"
         }
      >>,
      <<
         {
           <<1089, 1074, 1086, 1080, 1084, 1080>>  \* "своими"
         },
         {
           <<1088, 1091, 1082, 1072, 1084, 1080>>  \* "руками"
         }
      >>,
      <<
         {
           <<1095, 1090, 1086>>  \* "что"
         },
         {
           <<1085, 1091, 1078, 1085, 1086>>  \* "нужно"
         },
         {
           <<1089, 1076, 1077, 1083, 1072, 1090, 1100>>  \* "сделать"
         }
      >>,
      <<
         {
           <<1082, 1072, 1082, 1080, 1077>>  \* "какие"
         },
         {
           <<1080, 1085, 1089, 1090, 1088, 1091, 1084, 1077, 1085, 1090, 1099>>  \* "инструменты"
         }
      >>,
      <<
         {
           <<1075, 1072, 1081, 1076>>  \* "гайд"
         }
      >>
    >>

\* BOOKING_PHRASES (main.py, 125), in the pattern form of DIY_PATTERNS but with no \b
\* around the alternatives: запис(ал|ываю) | оформ(ил|ляю) |
\* постав(ил|лю)\s+в\s+расписание | созда(л|ю)\s+заявк
BOOKING_PHRASES ==
    <<
      <<
         {
           <<1079, 1072, 1087, 1080, 1089, 1072, 1083>>,  \* "записал"
           <<1079, 1072, 1087, 1080, 1089, 1099, 1074, 1072, 1102>>  \* "записываю"
         }
      >>,
      <<
         {
           <<1086, 1092, 1086, 1088, 1084, 1080, 1083>>,  \* "оформил"
           <<1086, 1092, 1086, 1088, 1084, 1083, 1103, 1102>>  \* "оформляю"
         }
      >>,
      <<
         {
           <<1087, 1086, 1089, 1090, 1072, 1074, 1080, 1083>>,  \* "поставил"
           <<1087, 1086, 1089, 1090, 1072, 1074, 1083, 1102>>  \* "поставлю"
         },
         {
           <<1074>>  \* "в"
         },
         {
           <<1088, 1072, 1089, 1087, 1080, 1089, 1072, 1085, 1080, 1077>>  \* "расписание"
         }
      >>,
      <<
         {
           <<1089, 1086, 1079, 1076, 1072, 1083>>,  \* "создал"
           <<1089, 1086, 1079, 1076, 1072, 1102>>  \* "создаю"
         },
         {
           <<1079, 1072, 1103, 1074, 1082>>  \* "заявк"
         }
      >>
    >>

\* the stems of the repair verbs in the filter of ai_reply (main.py, 321):
\* (открут|сним|установ|замен|подключ|раскрут|прижми|подтян)
REPAIR_VERBS ==
    {
      <<1086, 1090, 1082, 1088, 1091, 1090>>,  \* "открут"
      <<1089, 1085, 1080, 1084>>,  \* "сним"
      <<1091, 1089, 1090, 1072, 1085, 1086, 1074>>,  \* "установ"
      <<1079, 1072, 1084, 1077, 1085>>,  \* "замен"
      <<1087, 1086, 1076, 1082, 1083, 1102, 1095>>,  \* "подключ"
      <<1088, 1072, 1089, 1082, 1088, 1091, 1090>>,  \* "раскрут"
      <<1087, 1088, 1080, 1078, 1084, 1080>>,  \* "прижми"
      <<1087, 1086, 1076, 1090, 1103, 1085>>  \* "подтян"
    }

\* DIY_SAFE_REPLY (main.py, 118-122)
DIY_SAFE_REPLY ==
    <<1055, 1086, 1085, 1080, 1084, 1072, 1102, 32, 1078, 1077, 1083, 1072, 1085, 1080, 1077, 32,
    1088, 1072, 1079, 1086, 1073, 1088, 1072, 1090, 1100, 1089, 1103, 32, 1089, 1072, 1084, 1086,
    1084, 1091, 44, 32, 1085, 1086, 32, 1080, 1079, 32, 1089, 1086, 1086, 1073, 1088, 1072, 1078,
    1077, 1085, 1080, 1081, 32, 1073, 1077, 1079, 1086, 1087, 1072, 1089, 1085, 1086, 1089, 1090,
    1080, 32, 1080, 32, 1075, 1072, 1088, 1072, 1085, 1090, 1080, 1080, 32, 1084, 1099, 32, 1085,
    1077, 32, 1076, 1072, 1105, 1084, 32, 1080, 1085, 1089, 1090, 1088, 1091, 1082, 1094, 1080,
    1080, 32, 1087, 1086, 32, 1089, 1072, 1084, 1086, 1089, 1090, 1086, 1103, 1090, 1077, 1083,
    1100, 1085, 1086, 1084, 1091, 32, 1088, 1077, 1084, 1086, 1085, 1090, 1091, 46, 32, 1052, 1086,
    1075, 1091, 32, 1087, 1088, 1077, 1076, 1083, 1086, 1078, 1080, 1090, 1100, 32, 1073, 1099,
    1089, 1090, 1088, 1091, 1102, 32, 1076, 1080, 1072, 1075, 1085, 1086, 1089, 1090, 1080, 1082,
    1091, 44, 32, 1079, 1072, 1087, 1080, 1089, 1100, 32, 1074, 32, 1089, 1077, 1088, 1074, 1080,
    1089, 32, 1080, 32, 40, 1087, 1088, 1080, 32, 1085, 1077, 1086, 1073, 1093, 1086, 1076, 1080,
    1084, 1086, 1089, 1090, 1080, 41, 32, 1101, 1074, 1072, 1082, 1091, 1072, 1090, 1086, 1088, 46,
    32, 1054, 1087, 1080, 1096, 1080, 1090, 1077, 44, 32, 1087, 1086, 1078, 1072, 1083, 1091, 1081,
    1089, 1090, 1072, 44, 32, 1089, 1080, 1084, 1087, 1090, 1086, 1084, 1099, 32, 8212, 32, 1080,
    32, 1103, 32, 1086, 1092, 1086, 1088, 1084, 1083, 1102, 32, 1086, 1073, 1088, 1072, 1097, 1077,
    1085, 1080, 1077, 46>>

(***************************************************************************)
(* Phones (main.py, 72-86).                                                *)
(***************************************************************************)
\* the class [\d\-\s()] of PHONE_RE
IsPhoneClass(c) == IsDigit(c) \/ IsSpace(c) \/ c \in {45, 40, 41}

\* PHONE_RE = \+?\d[\d\-\s()]{6,} matched at position i: the position after the
\* match, 0 when there is none.  The optional "+" is taken when it is there (a
\* "+" is no digit, so giving it back cannot help), the class is taken greedily.
PhoneMatchEnd(t, i) ==
    LET d == IF i <= Len(t) /\ t[i] = 43 THEN i + 1 ELSE i
    IN  IF d <= Len(t) /\ IsDigit(t[d]) /\ RunEnd(t, d + 1, IsPhoneClass) - (d + 1) >= 6
        THEN RunEnd(t, d + 1, IsPhoneClass)
        ELSE 0

\* PHONE_RE.search(t): <<start, end>> of the leftmost match (end exclusive), None without one
PhoneSearch(t) ==
    LET starts == {i \in 1..Len(t) : PhoneMatchEnd(t, i) # 0}
    IN  IF starts = {} THEN None ELSE <<Min(starts), PhoneMatchEnd(t, Min(starts))>>

MinPhoneDigits == 7
MaxPhoneDigits == 15

normalize_phone(raw) ==
    IF raw = <<>> THEN None
    ELSE LET digits == SelectSeq(raw, IsDigit)
         IN  IF ~(MinPhoneDigits <= Len(digits) /\ Len(digits) <= MaxPhoneDigits) THEN None
             ELSE <<43>> \o digits

extract_phone_of(text) ==
    LET m == PhoneSearch(text)
    IN  IF m = None THEN None
        ELSE normalize_phone(SubSeq(text, m[1], m[2] - 1))

(***************************************************************************)
(* The dialogue history (main.py, 97-102).                                 *)
(***************************************************************************)
MAX_HISTORY == 6
\* the cut of one stored turn, content.strip()[:2000]
MaxTurnChars == 2000

\* while len(store) > MAX_HISTORY: store.pop(0)
RECURSIVE PopToMax(_)
PopToMax(store) == IF Len(store) > MAX_HISTORY THEN PopToMax(Tail(store)) ELSE store

\* the newest turns dropped in place of the oldest
push_history_keep_first(store, role, content) ==
    IF content # <<>>
    THEN Take(Append(store, [role |-> role, content |-> Take(Strip(content), MaxTurnChars)]),
              MAX_HISTORY)
    ELSE store

\* push_history(store, role, content): the list after the call
push_history(store, role, content) ==
    IF content # <<>>
    THEN PopToMax(Append(store, [role |-> role, content |-> Take(Strip(content), MaxTurnChars)]))
    ELSE store

(***************************************************************************)
(* The DIY filter (main.py, 104-122).                                      *)
(***************************************************************************)
\* the words pat[k..] of a pattern stand in t from position i, separated by \s+ and
\* followed by \b
RECURSIVE WordsAt(_, _, _, _)
WordsAt(t, i, pat, k) ==
    \E w \in pat[k] :
        /\ LitAt(t, i, w)
        /\ LET e == i + Len(w)
           IN  IF k = Len(pat) THEN WordBoundary(t, e)
               ELSE /\ e <= Len(t) /\ IsSpace(t[e])
                    /\ WordsAt(t, RunEnd(t, e, IsSpace), pat, k + 1)

\* re.search(p, t) for a pattern of DIY_PATTERNS
PatternSearch(pat, t) == \E i \in 1..Len(t) : WordBoundary(t, i) /\ WordsAt(t, i, pat, 1)

is_diy_request_of(text) ==
    LET t == Lower(text)
    IN  \E n \in 1..Len(DIY_PATTERNS) : PatternSearch(DIY_PATTERNS[n], t)

(***************************************************************************)
(* The booking filter (main.py, 124-129).                                  *)
(***************************************************************************)
\* as WordsAt, without the closing \b
RECURSIVE PhraseAt(_, _, _, _)
PhraseAt(t, i, pat, k) ==
    \E w \in pat[k] :
        /\ LitAt(t, i, w)
        /\ LET e == i + Len(w)
           IN  IF k = Len(pat) THEN TRUE
               ELSE /\ e <= Len(t) /\ IsSpace(t[e])
                    /\ PhraseAt(t, RunEnd(t, e, IsSpace), pat, k + 1)

\* BOOKING_PHRASES matches at position i of lt, the text as re.I sees it
BookingAt(lt, i) == \E n \in 1..Len(BOOKING_PHRASES) : PhraseAt(lt, i, BOOKING_PHRASES[n], 1)

\* re.search(BOOKING_PHRASES, t, flags=re.I)
HasBookingPhrase(t) == LET lt == IgnoreCase(t) IN \E i \in 1..Len(t) : BookingAt(lt, i)

\* the class [^.!?]
NotSentenceEnd(c) == c \notin {46, 33, 63}

\* re.sub(BOOKING_PHRASES + "[^.!?]*", "", t, flags=re.I) from position i on (lt is t
\* as re.I sees it): the leftmost match is cut out together with what follows it up to
\* the next . ! ? and the search goes on behind it.  No alternative holds a . ! or ?,
\* so a match that starts at m ends at the first . ! ? behind m.
RECURSIVE BookingSub(_, _, _)
BookingSub(t, lt, i) ==
    LET starts == {m \in i..Len(t) : BookingAt(lt, m)}
    IN  IF starts = {} THEN SubSeq(t, i, Len(t))
        ELSE SubSeq(t, i, Min(starts) - 1)
                 \o BookingSub(t, lt, RunEnd(t, Min(starts), NotSentenceEnd))

sanitize_ai_reply_of(text, has_inquiry) ==
    IF has_inquiry THEN text ELSE Strip(BookingSub(text, IgnoreCase(text), 1))

\* CANON (main.py, 140-153): the pairs <<synonym, canonical token>>
CANON ==
    { << <<1089, 1082, 1086, 1083, 1100, 1082, 1086>>, <<1094, 1077, 1085, 1072>> >>,  \* "сколько": "цена"
      << <<1089, 1090, 1086, 1080, 1090>>, <<1094, 1077, 1085, 1072>> >>,  \* "стоит": "цена"
      << <<1089, 1090, 1086, 1080, 1084, 1086, 1089, 1090, 1100>>, <<1094, 1077, 1085, 1072>> >>,  \* "стоимость": "цена"
      << <<1094, 1077, 1085, 1072>>, <<1094, 1077, 1085, 1072>> >>,  \* "цена": "цена"
      << <<1087, 1088, 1072, 1081, 1089>>, <<1094, 1077, 1085, 1072>> >>,  \* "прайс": "цена"
      << <<1101, 1074, 1072, 1082, 1091, 1072, 1090, 1086, 1088>>, <<1101, 1074, 1072, 1082, 1091, 1072, 1090, 1086, 1088>> >>,  \* "эвакуатор": "эвакуатор"
      << <<1101, 1074, 1072, 1082, 1091, 1072, 1094, 1080, 1103>>, <<1101, 1074, 1072, 1082, 1091, 1072, 1090, 1086, 1088>> >>,  \* "эвакуация": "эвакуатор"
      << <<1079, 1072, 1073, 1086, 1088>>, <<1101, 1074, 1072, 1082, 1091, 1072, 1090, 1086, 1088>> >>,  \* "забор": "эвакуатор"
      << <<1076, 1086, 1089, 1090, 1072, 1074, 1082, 1072>>, <<1101, 1074, 1072, 1082, 1091, 1072, 1090, 1086, 1088>> >>,  \* "доставка": "эвакуатор"
      << <<112, 105, 99, 107, 117, 112>>, <<1101, 1074, 1072, 1082, 1091, 1072, 1090, 1086, 1088>> >>,  \* "pickup": "эвакуатор"
      << <<1087, 1080, 1082, 1072, 1087>>, <<1101, 1074, 1072, 1082, 1091, 1072, 1090, 1086, 1088>> >>,  \* "пикап": "эвакуатор"
      << <<116, 111, 119>>, <<1101, 1074, 1072, 1082, 1091, 1072, 1090, 1086, 1088>> >>,  \* "tow": "эвакуатор"
      << <<1072, 1076, 1088, 1077, 1089>>, <<1072, 1076, 1088, 1077, 1089>> >>,  \* "адрес": "адрес"
      << <<1075, 1076, 1077>>, <<1072, 1076, 1088, 1077, 1089>> >>,  \* "где": "адрес"
      << <<1085, 1072, 1093, 1086, 1076, 1080, 1090, 1077, 1089, 1100>>, <<1072, 1076, 1088, 1077, 1089>> >>,  \* "находитесь": "адрес"
      << <<1083, 1086, 1082, 1072, 1094, 1080, 1103>>, <<1072, 1076, 1088, 1077, 1089>> >>,  \* "локация": "адрес"
      << <<1084, 1077, 1089, 1090, 1086, 1087, 1086, 1083, 1086, 1078, 1077, 1085, 1080, 1077>>, <<1072, 1076, 1088, 1077, 1089>> >>,  \* "местоположение": "адрес"
      << <<1082, 1091, 1076, 1072>>, <<1072, 1076, 1088, 1077, 1089>> >>,  \* "куда": "адрес"
      << <<1082, 1072, 1082>>, <<1072, 1076, 1088, 1077, 1089>> >>,  \* "как": "адрес"
      << <<1076, 1086, 1077, 1093, 1072, 1090, 1100>>, <<1072, 1076, 1088, 1077, 1089>> >>,  \* "доехать": "адрес"
      << <<1076, 1086, 1073, 1088, 1072, 1090, 1100, 1089, 1103>>, <<1072, 1076, 1088, 1077, 1089>> >>,  \* "добраться": "адрес"
      << <<1076, 1080, 1072, 1075, 1085, 1086, 1089, 1090, 1080, 1082, 1072>>, <<1076, 1080, 1072, 1075, 1085, 1086, 1089, 1090, 1080, 1082, 1072>> >>,  \* "диагностика": "диагностика"
      << <<1086, 1089, 1084, 1086, 1090, 1088>>, <<1076, 1080, 1072, 1075, 1085, 1086, 1089, 1090, 1080, 1082, 1072>> >>,  \* "осмотр": "диагностика"
      << <<1087, 1088, 1086, 1074, 1077, 1088, 1082, 1072>>, <<1076, 1080, 1072, 1075, 1085, 1086, 1089, 1090, 1080, 1082, 1072>> >>,  \* "проверка": "диагностика"
      << <<1079, 1072, 1087, 1095, 1072, 1089, 1090, 1080>>, <<1079, 1072, 1087, 1095, 1072, 1089, 1090, 1080>> >>,  \* "запчасти": "запчасти"
      << <<1076, 1077, 1090, 1072, 1083, 1080>>, <<1079, 1072, 1087, 1095, 1072, 1089, 1090, 1080>> >>,  \* "детали": "запчасти"
      << <<1082, 1086, 1084, 1087, 1083, 1077, 1082, 1090, 1091, 1102, 1097, 1080, 1077>>, <<1079, 1072, 1087, 1095, 1072, 1089, 1090, 1080>> >>,  \* "комплектующие": "запчасти"
      << <<1085, 1072, 1083, 1080, 1095, 1080, 1077>>, <<1079, 1072, 1087, 1095, 1072, 1089, 1090, 1080>> >> }  \* "наличие": "запчасти"

\* "эвакуатор"
W_evakuator ==
    <<1101, 1074, 1072, 1082, 1091, 1072, 1090, 1086, 1088>>

\* "адрес"
W_adres ==
    <<1072, 1076, 1088, 1077, 1089>>

\* default_kb() (main.py, 158-200), with the defaults of the environment (main.py, 50-56)
\* in the answers.  kb.json is absent, so KB = default_kb() (main.py, 213).
KB ==
    << [title |->  \* "Часы работы"
            <<1063, 1072, 1089, 1099, 32, 1088, 1072, 1073, 1086, 1090, 1099>>,
        tags |->
            << <<1095, 1072, 1089, 1099>>,  \* "часы"
               <<1074, 1088, 1077, 1084, 1103>>,  \* "время"
               <<1088, 1077, 1078, 1080, 1084>>,  \* "режим"
               <<1088, 1072, 1073, 1086, 1090, 1099>>,  \* "работы"
               <<1082, 1086, 1075, 1076, 1072>>,  \* "когда"
               <<1086, 1090, 1082, 1088, 1099, 1090, 1099>>,  \* "открыты"
               <<1074, 1099, 1093, 1086, 1076, 1085, 1099, 1077>> >>,  \* "выходные"
        answer |->  \* "GNCO работает: Ежедневно 09:00–18:00. Адрес: 94 Hurd Street, Newton Park, PE."
            <<71, 78, 67, 79, 32, 1088, 1072, 1073, 1086, 1090, 1072, 1077, 1090, 58, 32, 1045, 1078, 1077,
            1076, 1085, 1077, 1074, 1085, 1086, 32, 48, 57, 58, 48, 48, 8211, 49, 56, 58, 48, 48, 46, 32,
            1040, 1076, 1088, 1077, 1089, 58, 32, 57, 52, 32, 72, 117, 114, 100, 32, 83, 116, 114, 101,
            101, 116, 44, 32, 78, 101, 119, 116, 111, 110, 32, 80, 97, 114, 107, 44, 32, 80, 69, 46>>],
       [title |->  \* "Адрес и как добраться"
            <<1040, 1076, 1088, 1077, 1089, 32, 1080, 32, 1082, 1072, 1082, 32, 1076, 1086, 1073, 1088,
            1072, 1090, 1100, 1089, 1103>>,
        tags |->
            << <<1072, 1076, 1088, 1077, 1089>>,  \* "адрес"
               <<1075, 1076, 1077>>,  \* "где"
               <<1085, 1072, 1093, 1086, 1076, 1080, 1084, 1089, 1103>>,  \* "находимся"
               <<1083, 1086, 1082, 1072, 1094, 1080, 1103>>,  \* "локация"
               <<1082, 1072, 1082, 32, 1076, 1086, 1073, 1088, 1072, 1090, 1100, 1089, 1103>>,  \* "как добраться"
               <<1084, 1077, 1089, 1090, 1086, 1087, 1086, 1083, 1086, 1078, 1077, 1085, 1080, 1077>>,  \* "местоположение"
               <<1082, 1072, 1088, 1090, 1072>>,  \* "карта"
               <<1083, 1086, 1082, 1072, 1094, 1080, 1102>>,  \* "локацию"
               <<1082, 1091, 1076, 1072, 32, 1077, 1093, 1072, 1090, 1100>> >>,  \* "куда ехать"
        answer |->  \* "Наш адрес: 94 Hurd Street, Newton Park, PE. Город: Port Elizabeth (Gqeberha). Если неудобно ехать — можем забрать мотоцикл по городу за R300."
            <<1053, 1072, 1096, 32, 1072, 1076, 1088, 1077, 1089, 58, 32, 57, 52, 32, 72, 117, 114, 100,
            32, 83, 116, 114, 101, 101, 116, 44, 32, 78, 101, 119, 116, 111, 110, 32, 80, 97, 114, 107, 44,
            32, 80, 69, 46, 32, 1043, 1086, 1088, 1086, 1076, 58, 32, 80, 111, 114, 116, 32, 69, 108, 105,
            122, 97, 98, 101, 116, 104, 32, 40, 71, 113, 101, 98, 101, 114, 104, 97, 41, 46, 32, 1045,
            1089, 1083, 1080, 32, 1085, 1077, 1091, 1076, 1086, 1073, 1085, 1086, 32, 1077, 1093, 1072,
            1090, 1100, 32, 8212, 32, 1084, 1086, 1078, 1077, 1084, 32, 1079, 1072, 1073, 1088, 1072, 1090,
            1100, 32, 1084, 1086, 1090, 1086, 1094, 1080, 1082, 1083, 32, 1087, 1086, 32, 1075, 1086, 1088,
            1086, 1076, 1091, 32, 1079, 1072, 32, 82, 51, 48, 48, 46>>],
       [title |->  \* "Забор/доставка мотоцикла по городу"
            <<1047, 1072, 1073, 1086, 1088, 47, 1076, 1086, 1089, 1090, 1072, 1074, 1082, 1072, 32, 1084,
            1086, 1090, 1086, 1094, 1080, 1082, 1083, 1072, 32, 1087, 1086, 32, 1075, 1086, 1088, 1086,
            1076, 1091>>,
        tags |->
            << <<1101, 1074, 1072, 1082, 1091, 1072, 1090, 1086, 1088>>,  \* "эвакуатор"
               <<1076, 1086, 1089, 1090, 1072, 1074, 1082, 1072>>,  \* "доставка"
               <<1079, 1072, 1073, 1086, 1088>>,  \* "забор"
               <<1087, 1086, 32, 1075, 1086, 1088, 1086, 1076, 1091>>,  \* "по городу"
               <<1089, 1090, 1086, 1080, 1084, 1086, 1089, 1090, 1100>>,  \* "стоимость"
               <<1094, 1077, 1085, 1072>>,  \* "цена"
               <<1074, 1099, 1079, 1086, 1074>>,  \* "вызов"
               <<1101, 1074, 1072, 1082, 1091, 1072, 1094, 1080, 1103>>,  \* "эвакуация"
               <<112, 105, 99, 107, 117, 112>>,  \* "pickup"
               <<116, 111, 119>> >>,  \* "tow"
        answer |->  \* "В пределах Port Elizabeth (Gqeberha) забор/доставка мотоцикла стоит фиксировано R300. За город — по расстоянию. Напишите район/адрес и время — всё организуем."
            <<1042, 32, 1087, 1088, 1077, 1076, 1077, 1083, 1072, 1093, 32, 80, 111, 114, 116, 32, 69, 108,
            105, 122, 97, 98, 101, 116, 104, 32, 40, 71, 113, 101, 98, 101, 114, 104, 97, 41, 32, 1079,
            1072, 1073, 1086, 1088, 47, 1076, 1086, 1089, 1090, 1072, 1074, 1082, 1072, 32, 1084, 1086,
            1090, 1086, 1094, 1080, 1082, 1083, 1072, 32, 1089, 1090, 1086, 1080, 1090, 32, 1092, 1080,
            1082, 1089, 1080, 1088, 1086, 1074, 1072, 1085, 1086, 32, 82, 51, 48, 48, 46, 32, 1047, 1072,
            32, 1075, 1086, 1088, 1086, 1076, 32, 8212, 32, 1087, 1086, 32, 1088, 1072, 1089, 1089, 1090,
            1086, 1103, 1085, 1080, 1102, 46, 32, 1053, 1072, 1087, 1080, 1096, 1080, 1090, 1077, 32, 1088,
            1072, 1081, 1086, 1085, 47, 1072, 1076, 1088, 1077, 1089, 32, 1080, 32, 1074, 1088, 1077, 1084,
            1103, 32, 8212, 32, 1074, 1089, 1105, 32, 1086, 1088, 1075, 1072, 1085, 1080, 1079, 1091, 1077,
            1084, 46>>],
       [title |->  \* "Сроки ремонта"
            <<1057, 1088, 1086, 1082, 1080, 32, 1088, 1077, 1084, 1086, 1085, 1090, 1072>>,
        tags |->
            << <<1089, 1088, 1086, 1082>>,  \* "срок"
               <<1082, 1086, 1075, 1076, 1072>>,  \* "когда"
               <<1089, 1082, 1086, 1083, 1100, 1082, 1086, 32, 1074, 1088, 1077, 1084, 1077, 1085, 1080>>,  \* "сколько времени"
               <<1075, 1086, 1090, 1086, 1074, 1085, 1086, 1089, 1090, 1100>>,  \* "готовность"
               <<1086, 1095, 1077, 1088, 1077, 1076, 1100>>,  \* "очередь"
               <<1074, 1088, 1077, 1084, 1103>> >>,  \* "время"
        answer |->  \* "Сроки зависят от загрузки и наличия запчастей. После первичной диагностики дадим точный план и сроки."
            <<1057, 1088, 1086, 1082, 1080, 32, 1079, 1072, 1074, 1080, 1089, 1103, 1090, 32, 1086, 1090,
            32, 1079, 1072, 1075, 1088, 1091, 1079, 1082, 1080, 32, 1080, 32, 1085, 1072, 1083, 1080, 1095,
            1080, 1103, 32, 1079, 1072, 1087, 1095, 1072, 1089, 1090, 1077, 1081, 46, 32, 1055, 1086, 1089,
            1083, 1077, 32, 1087, 1077, 1088, 1074, 1080, 1095, 1085, 1086, 1081, 32, 1076, 1080, 1072,
            1075, 1085, 1086, 1089, 1090, 1080, 1082, 1080, 32, 1076, 1072, 1076, 1080, 1084, 32, 1090,
            1086, 1095, 1085, 1099, 1081, 32, 1087, 1083, 1072, 1085, 32, 1080, 32, 1089, 1088, 1086, 1082,
            1080, 46>>],
       [title |->  \* "Диагностика и стоимость"
            <<1044, 1080, 1072, 1075, 1085, 1086, 1089, 1090, 1080, 1082, 1072, 32, 1080, 32, 1089, 1090,
            1086, 1080, 1084, 1086, 1089, 1090, 1100>>,
        tags |->
            << <<1089, 1082, 1086, 1083, 1100, 1082, 1086, 32, 1089, 1090, 1086, 1080, 1090>>,  \* "сколько стоит"
               <<1094, 1077, 1085, 1072>>,  \* "цена"
               <<1089, 1090, 1086, 1080, 1084, 1086, 1089, 1090, 1100>>,  \* "стоимость"
               <<1076, 1080, 1072, 1075, 1085, 1086, 1089, 1090, 1080, 1082, 1072>>,  \* "диагностика"
               <<1087, 1088, 1072, 1081, 1089>>,  \* "прайс"
               <<1088, 1072, 1089, 1094, 1077, 1085, 1082, 1080>>,  \* "расценки"
               <<1086, 1089, 1084, 1086, 1090, 1088>> >>,  \* "осмотр"
        answer |->  \* "Перед началом работ делаем осмотр и согласовываем бюджет. Финальная стоимость известна после диагностики."
            <<1055, 1077, 1088, 1077, 1076, 32, 1085, 1072, 1095, 1072, 1083, 1086, 1084, 32, 1088, 1072,
            1073, 1086, 1090, 32, 1076, 1077, 1083, 1072, 1077, 1084, 32, 1086, 1089, 1084, 1086, 1090,
            1088, 32, 1080, 32, 1089, 1086, 1075, 1083, 1072, 1089, 1086, 1074, 1099, 1074, 1072, 1077,
            1084, 32, 1073, 1102, 1076, 1078, 1077, 1090, 46, 32, 1060, 1080, 1085, 1072, 1083, 1100, 1085,
            1072, 1103, 32, 1089, 1090, 1086, 1080, 1084, 1086, 1089, 1090, 1100, 32, 1080, 1079, 1074,
            1077, 1089, 1090, 1085, 1072, 32, 1087, 1086, 1089, 1083, 1077, 32, 1076, 1080, 1072, 1075,
            1085, 1086, 1089, 1090, 1080, 1082, 1080, 46>>],
       [title |->  \* "Запчасти и наличие"
            <<1047, 1072, 1087, 1095, 1072, 1089, 1090, 1080, 32, 1080, 32, 1085, 1072, 1083, 1080, 1095,
            1080, 1077>>,
        tags |->
            << <<1079, 1072, 1087, 1095, 1072, 1089, 1090, 1080>>,  \* "запчасти"
               <<1085, 1072, 1083, 1080, 1095, 1080, 1077>>,  \* "наличие"
               <<1076, 1077, 1090, 1072, 1083, 1080>>,  \* "детали"
               <<1082, 1086, 1084, 1087, 1083, 1077, 1082, 1090, 1091, 1102, 1097, 1080, 1077>>,  \* "комплектующие"
               <<1082, 1072, 1090, 1072, 1083, 1086, 1075>>,  \* "каталог"
               <<1079, 1072, 1082, 1072, 1079>>,  \* "заказ"
               <<118, 105, 110>> >>,  \* "vin"
        answer |->  \* "Подберём детали по VIN/модели. Работаем с проверенными поставщиками; при необходимости закажем."
            <<1055, 1086, 1076, 1073, 1077, 1088, 1105, 1084, 32, 1076, 1077, 1090, 1072, 1083, 1080, 32,
            1087, 1086, 32, 86, 73, 78, 47, 1084, 1086, 1076, 1077, 1083, 1080, 46, 32, 1056, 1072, 1073,
            1086, 1090, 1072, 1077, 1084, 32, 1089, 32, 1087, 1088, 1086, 1074, 1077, 1088, 1077, 1085,
            1085, 1099, 1084, 1080, 32, 1087, 1086, 1089, 1090, 1072, 1074, 1097, 1080, 1082, 1072, 1084,
            1080, 59, 32, 1087, 1088, 1080, 32, 1085, 1077, 1086, 1073, 1093, 1086, 1076, 1080, 1084, 1086,
            1089, 1090, 1080, 32, 1079, 1072, 1082, 1072, 1078, 1077, 1084, 46>>],
       [title |->  \* "Контакты"
            <<1050, 1086, 1085, 1090, 1072, 1082, 1090, 1099>>,
        tags |->
            << <<1082, 1086, 1085, 1090, 1072, 1082, 1090, 1099>>,  \* "контакты"
               <<1089, 1074, 1103, 1079, 1072, 1090, 1100, 1089, 1103>>,  \* "связаться"
               <<1085, 1086, 1084, 1077, 1088>>,  \* "номер"
               <<1090, 1077, 1083, 1077, 1092, 1086, 1085>>,  \* "телефон"
               <<1074, 1072, 1090, 1089, 1072, 1087>>,  \* "ватсап"
               <<119, 104, 97, 116, 115, 97, 112, 112>> >>,  \* "whatsapp"
        answer |->  \* "Быстрее всего — WhatsApp +27XXXXXXXXXX. Можно писать и сюда в чат."
            <<1041, 1099, 1089, 1090, 1088, 1077, 1077, 32, 1074, 1089, 1077, 1075, 1086, 32, 8212, 32, 87,
            104, 97, 116, 115, 65, 112, 112, 32, 43, 50, 55, 88, 88, 88, 88, 88, 88, 88, 88, 88, 88, 46,
            32, 1052, 1086, 1078, 1085, 1086, 32, 1087, 1080, 1089, 1072, 1090, 1100, 32, 1080, 32, 1089,
            1102, 1076, 1072, 32, 1074, 32, 1095, 1072, 1090, 46>>],
       [title |->  \* "Гарантия и качество"
            <<1043, 1072, 1088, 1072, 1085, 1090, 1080, 1103, 32, 1080, 32, 1082, 1072, 1095, 1077, 1089,
            1090, 1074, 1086>>,
        tags |->
            << <<1075, 1072, 1088, 1072, 1085, 1090, 1080, 1103>>,  \* "гарантия"
               <<1082, 1072, 1095, 1077, 1089, 1090, 1074, 1086>>,  \* "качество"
               <<1074, 1086, 1079, 1074, 1088, 1072, 1090>>,  \* "возврат"
               <<1087, 1086, 1074, 1090, 1086, 1088, 1085, 1099, 1081, 32, 1088, 1077, 1084, 1086, 1085, 1090>> >>,  \* "повторный ремонт"
        answer |->  \* "Даем гарантию на выполненные работы и использованные запчасти. Все согласуем заранее."
            <<1044, 1072, 1077, 1084, 32, 1075, 1072, 1088, 1072, 1085, 1090, 1080, 1102, 32, 1085, 1072,
            32, 1074, 1099, 1087, 1086, 1083, 1085, 1077, 1085, 1085, 1099, 1077, 32, 1088, 1072, 1073,
            1086, 1090, 1099, 32, 1080, 32, 1080, 1089, 1087, 1086, 1083, 1100, 1079, 1086, 1074, 1072,
            1085, 1085, 1099, 1077, 32, 1079, 1072, 1087, 1095, 1072, 1089, 1090, 1080, 46, 32, 1042, 1089,
            1077, 32, 1089, 1086, 1075, 1083, 1072, 1089, 1091, 1077, 1084, 32, 1079, 1072, 1088, 1072,
            1085, 1077, 1077, 46>>] >>

\* "По Port Elizabeth (Gqeberha) забор/доставка мотоцикла — фикс R300. За город — по расстоянию. Напишите район/адрес и удобное время — всё организуем."
QUICK_TOW_ANSWER ==
    <<1055, 1086, 32, 80, 111, 114, 116, 32, 69, 108, 105, 122, 97, 98, 101, 116, 104, 32, 40, 71,
    113, 101, 98, 101, 114, 104, 97, 41, 32, 1079, 1072, 1073, 1086, 1088, 47, 1076, 1086, 1089,
    1090, 1072, 1074, 1082, 1072, 32, 1084, 1086, 1090, 1086, 1094, 1080, 1082, 1083, 1072, 32,
    8212, 32, 1092, 1080, 1082, 1089, 32, 82, 51, 48, 48, 46, 32, 1047, 1072, 32, 1075, 1086, 1088,
    1086, 1076, 32, 8212, 32, 1087, 1086, 32, 1088, 1072, 1089, 1089, 1090, 1086, 1103, 1085, 1080,
    1102, 46, 32, 1053, 1072, 1087, 1080, 1096, 1080, 1090, 1077, 32, 1088, 1072, 1081, 1086, 1085,
    47, 1072, 1076, 1088, 1077, 1089, 32, 1080, 32, 1091, 1076, 1086, 1073, 1085, 1086, 1077, 32,
    1074, 1088, 1077, 1084, 1103, 32, 8212, 32, 1074, 1089, 1105, 32, 1086, 1088, 1075, 1072, 1085,
    1080, 1079, 1091, 1077, 1084, 46>>

\* "Наш адрес: 94 Hurd Street, Newton Park, PE. Работаем: Ежедневно 09:00–18:00. Если неудобно ехать — можем забрать мотоцикл по городу за R300."
QUICK_ADDRESS_ANSWER ==
    <<1053, 1072, 1096, 32, 1072, 1076, 1088, 1077, 1089, 58, 32, 57, 52, 32, 72, 117, 114, 100,
    32, 83, 116, 114, 101, 101, 116, 44, 32, 78, 101, 119, 116, 111, 110, 32, 80, 97, 114, 107, 44,
    32, 80, 69, 46, 32, 1056, 1072, 1073, 1086, 1090, 1072, 1077, 1084, 58, 32, 1045, 1078, 1077,
    1076, 1085, 1077, 1074, 1085, 1086, 32, 48, 57, 58, 48, 48, 8211, 49, 56, 58, 48, 48, 46, 32,
    1045, 1089, 1083, 1080, 32, 1085, 1077, 1091, 1076, 1086, 1073, 1085, 1086, 32, 1077, 1093,
    1072, 1090, 1100, 32, 8212, 32, 1084, 1086, 1078, 1077, 1084, 32, 1079, 1072, 1073, 1088, 1072,
    1090, 1100, 32, 1084, 1086, 1090, 1086, 1094, 1080, 1082, 1083, 32, 1087, 1086, 32, 1075, 1086,
    1088, 1086, 1076, 1091, 32, 1079, 1072, 32, 82, 51, 48, 48, 46>>

(***************************************************************************)
(* The knowledge base (main.py, 131-241).                                  *)
(***************************************************************************)
\* the elements of a set of numbers in increasing order
SortedSeq(S) ==
    [k \in 1..Cardinality(S) |-> CHOOSE i \in S : Cardinality({j \in S : j < i}) = k - 1]

\* str.split(): the maximal runs of characters that are no white space, in order
Split(t) ==
    LET NotSpace(c) == ~IsSpace(c)
        starts == {i \in 1..Len(t) : NotSpace(t[i]) /\ (i = 1 \/ IsSpace(t[i - 1]))}
        order  == SortedSeq(starts)
    IN  [k \in 1..Len(order) |-> SubSeq(t, order[k], RunEnd(t, order[k], NotSpace) - 1)]

\* the class [a-zа-я0-9\s\-]
IsTokenChar(c) ==
    c \in 97..122 \/ c \in 1072..1103 \/ c \in 48..57 \/ IsSpace(c) \/ c = 45

\* re.sub("[^a-zа-я0-9\s\-]+", " ", t): every run of other characters becomes one space
SubNonToken(t) ==
    LET idx  == [i \in 1..Len(t) |-> i]
        kept == SelectSeq(idx, LAMBDA i : IsTokenChar(t[i]) \/ i = 1 \/ IsTokenChar(t[i - 1]))
    IN  [k \in 1..Len(kept) |-> IF IsTokenChar(t[kept[k]]) THEN t[kept[k]] ELSE 32]

\* t.replace("ё", "е")
YoToYe(t) == [i \in 1..Len(t) |-> IF t[i] = 1105 THEN 1077 ELSE t[i]]

tokens_ru(text) == Split(SubNonToken(YoToYe(Lower(text))))

\* CANON.get(t, t)
Canon(t) == IF \E p \in CANON : p[1] = t THEN (CHOOSE p \in CANON : p[1] = t)[2] ELSE t

\* [CANON.get(t, t) for t in toks]
CanonAll(toks) == [k \in 1..Len(toks) |-> Canon(toks[k])]

canonical_tokens(text) == CanonAll(tokens_ru(text))

\* set(list)
ToSet(s) == {s[k] : k \in 1..Len(s)}

\* " ".join(item["tags"]) + " " + item["title"]
TagsText(item) == Join(item.tags, <<32>>) \o <<32>> \o item.title

\* set(canonical_tokens(tags_text)) of every entry; KB never changes after the import
KbTokenSets == [n \in 1..Len(KB) |-> ToSet(canonical_tokens(TagsText(KB[n])))]

\* score = len(q & set(canonical_tokens(tags_text))) of entry n
KbScore(q, n) == Cardinality(q \cap KbTokenSets[n])

\* if score > best_score: best_score = score; best_answer = item["answer"]
KbBetter(score, answer, best) == IF score > best[1] THEN <<score, answer>> ELSE best

\* the same with score >= best_score
KbBetterOrEqual(score, answer, best) == IF score >= best[1] THEN <<score, answer>> ELSE best

\* the loop with score >= best_score: the last entry of the highest score wins
RECURSIVE KbBestLastWins(_, _, _)
KbBestLastWins(q, n, best) ==
    IF n > Len(KB) THEN best
    ELSE KbBestLastWins(q, n + 1, KbBetterOrEqual(KbScore(q, n), KB[n].answer, best))

\* the loop of kb_search over KB[n..]: <<best_score, best_answer>>
RECURSIVE KbBest(_, _, _)
KbBest(q, n, best) ==
    IF n > Len(KB) THEN best
    ELSE KbBest(q, n + 1, KbBetter(KbScore(q, n), KB[n].answer, best))

\* the score an entry needs to be returned
KbThreshold == 2
\* the score that is enough for a query with the address or the tow token
KbIntentThreshold == 1

\* the two returns behind the loop of kb_search, best = <<best_score, best_answer>>
KbReturn(q, best) ==
    IF (W_adres \in q \/ W_evakuator \in q) /\ best[1] >= KbIntentThreshold THEN best[2]
    ELSE IF best[1] >= KbThreshold THEN best[2] ELSE None

\* kb_search from the token set q of the query on
KbSearchTokens(q) == KbReturn(q, KbBest(q, 1, <<0, None>>))

kb_search_of(query) ==
    IF query = <<>> THEN None ELSE KbSearchTokens(ToSet(canonical_tokens(query)))

\* quick_intent_answer from the token set q of the text on
QuickAnswer(q) ==
    IF W_evakuator \in q THEN QUICK_TOW_ANSWER
    ELSE IF W_adres \in q THEN QUICK_ADDRESS_ANSWER
    ELSE None

quick_intent_answer_of(text) == QuickAnswer(ToSet(canonical_tokens(text)))

(***************************************************************************)
(* The fixed texts of the replies.                                         *)
(***************************************************************************)
\* "Расскажите чуть подробнее, что случилось — подскажу и предложу следующий шаг. Если понадобится, оформлю обращение."
NO_KEY_REPLY ==
    <<1056, 1072, 1089, 1089, 1082, 1072, 1078, 1080, 1090, 1077, 32, 1095, 1091, 1090, 1100, 32,
    1087, 1086, 1076, 1088, 1086, 1073, 1085, 1077, 1077, 44, 32, 1095, 1090, 1086, 32, 1089, 1083,
    1091, 1095, 1080, 1083, 1086, 1089, 1100, 32, 8212, 32, 1087, 1086, 1076, 1089, 1082, 1072,
    1078, 1091, 32, 1080, 32, 1087, 1088, 1077, 1076, 1083, 1086, 1078, 1091, 32, 1089, 1083, 1077,
    1076, 1091, 1102, 1097, 1080, 1081, 32, 1096, 1072, 1075, 46, 32, 1045, 1089, 1083, 1080, 32,
    1087, 1086, 1085, 1072, 1076, 1086, 1073, 1080, 1090, 1089, 1103, 44, 32, 1086, 1092, 1086,
    1088, 1084, 1083, 1102, 32, 1086, 1073, 1088, 1072, 1097, 1077, 1085, 1080, 1077, 46>>

\* "Техническая ошибка AI: HTTP "
TECH_ERROR_PREFIX ==
    <<1058, 1077, 1093, 1085, 1080, 1095, 1077, 1089, 1082, 1072, 1103, 32, 1086, 1096, 1080, 1073,
    1082, 1072, 32, 65, 73, 58, 32, 72, 84, 84, 80, 32>>

\* "Сейчас высокая нагрузка. Давайте продолжим чат, а я попробую ещё раз."
HIGH_LOAD_REPLY ==
    <<1057, 1077, 1081, 1095, 1072, 1089, 32, 1074, 1099, 1089, 1086, 1082, 1072, 1103, 32, 1085,
    1072, 1075, 1088, 1091, 1079, 1082, 1072, 46, 32, 1044, 1072, 1074, 1072, 1081, 1090, 1077, 32,
    1087, 1088, 1086, 1076, 1086, 1083, 1078, 1080, 1084, 32, 1095, 1072, 1090, 44, 32, 1072, 32,
    1103, 32, 1087, 1086, 1087, 1088, 1086, 1073, 1091, 1102, 32, 1077, 1097, 1105, 32, 1088, 1072,
    1079, 46>>

\* "Привет! Я менеджер GNCO. Расскажите, что случилось — подскажу. Если готовы сразу оформить, пришлите номер в формате +27XXXXXXXXXX."
WELCOME_TG ==
    <<1055, 1088, 1080, 1074, 1077, 1090, 33, 32, 1071, 32, 1084, 1077, 1085, 1077, 1076, 1078,
    1077, 1088, 32, 71, 78, 67, 79, 46, 32, 1056, 1072, 1089, 1089, 1082, 1072, 1078, 1080, 1090,
    1077, 44, 32, 1095, 1090, 1086, 32, 1089, 1083, 1091, 1095, 1080, 1083, 1086, 1089, 1100, 32,
    8212, 32, 1087, 1086, 1076, 1089, 1082, 1072, 1078, 1091, 46, 32, 1045, 1089, 1083, 1080, 32,
    1075, 1086, 1090, 1086, 1074, 1099, 32, 1089, 1088, 1072, 1079, 1091, 32, 1086, 1092, 1086,
    1088, 1084, 1080, 1090, 1100, 44, 32, 1087, 1088, 1080, 1096, 1083, 1080, 1090, 1077, 32, 1085,
    1086, 1084, 1077, 1088, 32, 1074, 32, 1092, 1086, 1088, 1084, 1072, 1090, 1077, 32, 43, 50, 55,
    88, 88, 88, 88, 88, 88, 88, 88, 88, 88, 46>>

\* "Привет! Я менеджер GNCO. Расскажите, что случилось — подскажу. Кстати, как к вам обращаться?"
WELCOME_WA ==
    <<1055, 1088, 1080, 1074, 1077, 1090, 33, 32, 1071, 32, 1084, 1077, 1085, 1077, 1076, 1078,
    1077, 1088, 32, 71, 78, 67, 79, 46, 32, 1056, 1072, 1089, 1089, 1082, 1072, 1078, 1080, 1090,
    1077, 44, 32, 1095, 1090, 1086, 32, 1089, 1083, 1091, 1095, 1080, 1083, 1086, 1089, 1100, 32,
    8212, 32, 1087, 1086, 1076, 1089, 1082, 1072, 1078, 1091, 46, 32, 1050, 1089, 1090, 1072, 1090,
    1080, 44, 32, 1082, 1072, 1082, 32, 1082, 32, 1074, 1072, 1084, 32, 1086, 1073, 1088, 1072,
    1097, 1072, 1090, 1100, 1089, 1103, 63>>

\* "Ваш Telegram ID: <code>"
ID_REPLY_PREFIX ==
    <<1042, 1072, 1096, 32, 84, 101, 108, 101, 103, 114, 97, 109, 32, 73, 68, 58, 32, 60, 99, 111,
    100, 101, 62>>

\* "</code>"
ID_REPLY_SUFFIX ==
    <<60, 47, 99, 111, 100, 101, 62>>

\* "Спасибо, "
NAME_THANKS_PREFIX ==
    <<1057, 1087, 1072, 1089, 1080, 1073, 1086, 44, 32>>

\* "! Продолжайте — я помогу."
NAME_THANKS_SUFFIX ==
    <<33, 32, 1055, 1088, 1086, 1076, 1086, 1083, 1078, 1072, 1081, 1090, 1077, 32, 8212, 32, 1103,
    32, 1087, 1086, 1084, 1086, 1075, 1091, 46>>

\* "Как к вам обращаться? Имя можно одним словом 🙂"
NAME_REPROMPT ==
    <<1050, 1072, 1082, 32, 1082, 32, 1074, 1072, 1084, 32, 1086, 1073, 1088, 1072, 1097, 1072,
    1090, 1100, 1089, 1103, 63, 32, 1048, 1084, 1103, 32, 1084, 1086, 1078, 1085, 1086, 32, 1086,
    1076, 1085, 1080, 1084, 32, 1089, 1083, 1086, 1074, 1086, 1084, 32, 128578>>

\* "Принял номер: <b>"
PHONE_ACK_PREFIX ==
    <<1055, 1088, 1080, 1085, 1103, 1083, 32, 1085, 1086, 1084, 1077, 1088, 58, 32, 60, 98, 62>>

\* "</b>. Зафиксировал запрос."
PHONE_ACK_SUFFIX ==
    <<60, 47, 98, 62, 46, 32, 1047, 1072, 1092, 1080, 1082, 1089, 1080, 1088, 1086, 1074, 1072,
    1083, 32, 1079, 1072, 1087, 1088, 1086, 1089, 46>>

\* "Кстати, как к вам обращаться?"
ASK_NAME ==
    <<1050, 1089, 1090, 1072, 1090, 1080, 44, 32, 1082, 1072, 1082, 32, 1082, 32, 1074, 1072, 1084,
    32, 1086, 1073, 1088, 1072, 1097, 1072, 1090, 1100, 1089, 1103, 63>>

\* "Готово! ✅ Заявка создана в CRM (ID: <b>"
CRM_OK_PREFIX ==
    <<1043, 1086, 1090, 1086, 1074, 1086, 33, 32, 9989, 32, 1047, 1072, 1103, 1074, 1082, 1072, 32,
    1089, 1086, 1079, 1076, 1072, 1085, 1072, 32, 1074, 32, 67, 82, 77, 32, 40, 73, 68, 58, 32, 60,
    98, 62>>

\* "</b>).\nНомер: <b>"
CRM_OK_PHONE ==
    <<60, 47, 98, 62, 41, 46, 10, 1053, 1086, 1084, 1077, 1088, 58, 32, 60, 98, 62>>

\* "</b>\nИмя: <b>"
CRM_OK_NAME ==
    <<60, 47, 98, 62, 10, 1048, 1084, 1103, 58, 32, 60, 98, 62>>

\* "</b>"
CRM_OK_SUFFIX ==
    <<60, 47, 98, 62>>

\* "❌ Не удалось создать заявку в CRM.\nHTTP "
CRM_HTTP_ERROR_PREFIX ==
    <<10060, 32, 1053, 1077, 32, 1091, 1076, 1072, 1083, 1086, 1089, 1100, 32, 1089, 1086, 1079,
    1076, 1072, 1090, 1100, 32, 1079, 1072, 1103, 1074, 1082, 1091, 32, 1074, 32, 67, 82, 77, 46,
    10, 72, 84, 84, 80, 32>>

\* "❌ Техническая ошибка: "
CRM_TECH_ERROR_PREFIX ==
    <<10060, 32, 1058, 1077, 1093, 1085, 1080, 1095, 1077, 1089, 1082, 1072, 1103, 32, 1086, 1096,
    1080, 1073, 1082, 1072, 58, 32>>

\* "\n\nКак к вам обращаться?"
ASK_NAME_SUFFIX ==
    <<10, 10, 1050, 1072, 1082, 32, 1082, 32, 1074, 1072, 1084, 32, 1086, 1073, 1088, 1072, 1097,
    1072, 1090, 1100, 1089, 1103, 63>>

\* "\n\n"
HINT_SEPARATOR ==
    <<10, 10>>

\* PHONE_HINTS (main.py, 358-362)
PHONE_HINTS ==
    \* "Если хотите оформить обращение — пришлите номер в формате +XXXXXXXXXXX, всё сделаю."
    << <<1045, 1089, 1083, 1080, 32, 1093, 1086, 1090, 1080, 1090, 1077, 32, 1086, 1092, 1086, 1088,
       1084, 1080, 1090, 1100, 32, 1086, 1073, 1088, 1072, 1097, 1077, 1085, 1080, 1077, 32, 8212, 32,
       1087, 1088, 1080, 1096, 1083, 1080, 1090, 1077, 32, 1085, 1086, 1084, 1077, 1088, 32, 1074, 32,
       1092, 1086, 1088, 1084, 1072, 1090, 1077, 32, 43, 88, 88, 88, 88, 88, 88, 88, 88, 88, 88, 88,
       44, 32, 1074, 1089, 1105, 32, 1089, 1076, 1077, 1083, 1072, 1102, 46>>,
    \* "Готов оформить заявку — просто пришлите номер телефона в формате +XXXXXXXXXXX."
       <<1043, 1086, 1090, 1086, 1074, 32, 1086, 1092, 1086, 1088, 1084, 1080, 1090, 1100, 32, 1079,
       1072, 1103, 1074, 1082, 1091, 32, 8212, 32, 1087, 1088, 1086, 1089, 1090, 1086, 32, 1087, 1088,
       1080, 1096, 1083, 1080, 1090, 1077, 32, 1085, 1086, 1084, 1077, 1088, 32, 1090, 1077, 1083,
       1077, 1092, 1086, 1085, 1072, 32, 1074, 32, 1092, 1086, 1088, 1084, 1072, 1090, 1077, 32, 43,
       88, 88, 88, 88, 88, 88, 88, 88, 88, 88, 88, 46>>,
    \* "Чтобы закрепить запрос и передать мастеру, нужен номер в формате +XXXXXXXXXXX."
       <<1063, 1090, 1086, 1073, 1099, 32, 1079, 1072, 1082, 1088, 1077, 1087, 1080, 1090, 1100, 32,
       1079, 1072, 1087, 1088, 1086, 1089, 32, 1080, 32, 1087, 1077, 1088, 1077, 1076, 1072, 1090,
       1100, 32, 1084, 1072, 1089, 1090, 1077, 1088, 1091, 44, 32, 1085, 1091, 1078, 1077, 1085, 32,
       1085, 1086, 1084, 1077, 1088, 32, 1074, 32, 1092, 1086, 1088, 1084, 1072, 1090, 1077, 32, 43,
       88, 88, 88, 88, 88, 88, 88, 88, 88, 88, 88, 46>> >>

\* "Клиент"
CLIENT_NAME ==
    <<1050, 1083, 1080, 1077, 1085, 1090>>

\* "id"
ID_PREFIX ==
    <<105, 100>>

\* str(None), "None"
NONE_TEXT ==
    <<78, 111, 110, 101>>

\* "Запрос на ремонт/запчасти"
CRM_TITLE ==
    <<1047, 1072, 1087, 1088, 1086, 1089, 32, 1085, 1072, 32, 1088, 1077, 1084, 1086, 1085, 1090,
    47, 1079, 1072, 1087, 1095, 1072, 1089, 1090, 1080>>

\* "Источник: "
SOURCE_PREFIX ==
    <<1048, 1089, 1090, 1086, 1095, 1085, 1080, 1082, 58, 32>>

\* ". Недавние сообщения:\n"
SOURCE_SUFFIX ==
    <<46, 32, 1053, 1077, 1076, 1072, 1074, 1085, 1080, 1077, 32, 1089, 1086, 1086, 1073, 1097,
    1077, 1085, 1080, 1103, 58, 10>>

\* "Telegram"
SOURCE_TELEGRAM ==
    <<84, 101, 108, 101, 103, 114, 97, 109>>

\* "WhatsApp"
SOURCE_WHATSAPP ==
    <<87, 104, 97, 116, 115, 65, 112, 112>>

\* the system prompt of ai_reply, with COMPANY_NAME at its default
SYSTEM_PROMPT ==
    <<1058, 1099, 32, 1076, 1088, 1091, 1078, 1077, 1083, 1102, 1073, 1085, 1099, 1081, 32, 1084,
    1077, 1085, 1077, 1076, 1078, 1077, 1088, 32, 1089, 1077, 1088, 1074, 1080, 1089, 1072, 32, 71,
    78, 67, 79, 46, 32, 1054, 1090, 1074, 1077, 1095, 1072, 1081, 32, 1087, 1086, 45, 1088, 1091,
    1089, 1089, 1082, 1080, 44, 32, 1090, 1077, 1087, 1083, 1086, 32, 1080, 32, 1087, 1086, 32,
    1076, 1077, 1083, 1091, 44, 32, 49, 8211, 51, 32, 1087, 1088, 1077, 1076, 1083, 1086, 1078,
    1077, 1085, 1080, 1103, 46, 10, 1057, 1090, 1088, 1086, 1075, 1080, 1081, 32, 1079, 1072, 1087,
    1088, 1077, 1090, 58, 32, 1085, 1077, 32, 1076, 1072, 1074, 1072, 1081, 32, 1080, 1085, 1089,
    1090, 1088, 1091, 1082, 1094, 1080, 1081, 32, 1087, 1086, 32, 1089, 1072, 1084, 1086, 1089,
    1090, 1086, 1103, 1090, 1077, 1083, 1100, 1085, 1086, 1084, 1091, 32, 1088, 1077, 1084, 1086,
    1085, 1090, 1091, 47, 1088, 1072, 1079, 1073, 1086, 1088, 1082, 1077, 47, 1085, 1072, 1089,
    1090, 1088, 1086, 1081, 1082, 1077, 46, 32, 1042, 1084, 1077, 1089, 1090, 1086, 32, 1101, 1090,
    1086, 1075, 1086, 32, 1087, 1088, 1077, 1076, 1083, 1072, 1075, 1072, 1081, 32, 1076, 1080,
    1072, 1075, 1085, 1086, 1089, 1090, 1080, 1082, 1091, 47, 1079, 1072, 1087, 1080, 1089, 1100,
    47, 1101, 1074, 1072, 1082, 1091, 1072, 1090, 1086, 1088, 46, 10, 1045, 1089, 1083, 1080, 32,
    1082, 1072, 1085, 1072, 1083, 32, 87, 104, 97, 116, 115, 65, 112, 112, 32, 8212, 32, 1085,
    1086, 1084, 1077, 1088, 32, 1091, 1078, 1077, 32, 1080, 1079, 1074, 1077, 1089, 1090, 1077,
    1085, 44, 32, 1087, 1088, 1086, 1089, 1080, 32, 1090, 1086, 1083, 1100, 1082, 1086, 32, 1080,
    1084, 1103, 32, 40, 1086, 1076, 1080, 1085, 32, 1088, 1072, 1079, 41, 46, 32, 1048, 1089, 1087,
    1086, 1083, 1100, 1079, 1091, 1081, 32, 1092, 1072, 1082, 1090, 1099, 32, 1080, 1079, 32, 1073,
    1083, 1086, 1082, 1072, 32, 39, 1050, 1086, 1085, 1090, 1077, 1082, 1089, 1090, 39, 44, 32,
    1077, 1089, 1083, 1080, 32, 1086, 1085, 1080, 32, 1087, 1086, 1076, 1093, 1086, 1076, 1103,
    1090, 46>>
\* f"Контекст: {kb_ctx}" up to the answer
CONTEXT_PREFIX ==
    <<1050, 1086, 1085, 1090, 1077, 1082, 1089, 1090, 58, 32>>
\* "Контекст: (нет явных фактов)"
CONTEXT_NONE ==
    <<1050, 1086, 1085, 1090, 1077, 1082, 1089, 1090, 58, 32, 40, 1085, 1077, 1090, 32, 1103, 1074,
    1085, 1099, 1093, 32, 1092, 1072, 1082, 1090, 1086, 1074, 41>>

(***************************************************************************)
(* The filter of ai_reply on a generated text (main.py, 317-323).          *)
(***************************************************************************)
\* re.search(r"\b(...)\w*\b", lt)
RepairVerbSearch(lt) ==
    \E i \in 1..Len(lt) :
        /\ WordBoundary(lt, i)
        /\ \E w \in REPAIR_VERBS :
              LitAt(lt, i, w) /\ WordBoundary(lt, RunEnd(lt, i + Len(w), IsWordChar))

\* the cut of a generated text, [:1200]
MaxReplyChars == 1200

\* text = (content or "").strip()[:1200]
GeneratedText(content) == Take(Strip(IF content = None THEN <<>> ELSE content), MaxReplyChars)

\* what ai_reply returns for a 200 answer that carries `content`
GeneratedReply_of(content) ==
    LET text == GeneratedText(content)
    IN  IF is_diy_request_of(text) \/ RepairVerbSearch(Lower(text)) THEN DIY_SAFE_REPLY ELSE text

\* for _ in range(5)
MAX_ATTEMPTS == 5
\* backoff = 1
BACKOFF_START == 1
\* min(backoff * 2, 16)
BACKOFF_CAP == 16
\* the backoff not doubled
NextBackoffFixed(b) == b

NextBackoff(b) == IF b * 2 < BACKOFF_CAP THEN b * 2 ELSE BACKOFF_CAP

\* the statuses ai_reply retries
RETRY_STATUSES == {429, 500, 502, 503, 504}

\* f"Техническая ошибка AI: HTTP {r.status_code}"
TechError(status) == TECH_ERROR_PREFIX \o Decimal(status)

(***************************************************************************)
(* Names (main.py, 88-94 and 354-356).                                     *)
(***************************************************************************)
\* x or ""
OrEmpty(x) == IF x = None THEN <<>> ELSE x

\* tg_display_name(update); u is update.effective_user, a record whose field
\* is_none says that there is none
tg_display_name(u) ==
    IF u.is_none THEN CLIENT_NAME
    ELSE LET parts == <<OrEmpty(u.first_name), OrEmpty(u.last_name)>>
             name  == Strip(Join(SelectSeq(parts, LAMBDA x : x # <<>>), <<32>>))
         IN  IF name # <<>> THEN name
             ELSE IF OrEmpty(u.username) # <<>> THEN u.username
             ELSE ID_PREFIX \o Decimal(u.id)

MaxNameTokens == 4
MaxNameChars == 40

looks_like_name_of(text) ==
    LET t == Strip(text)
    IN  /\ t # <<>>
        /\ extract_phone_of(t) = None
        /\ Len(Split(t)) <= MaxNameTokens
        /\ Len(t) <= MaxNameChars

(***************************************************************************)
(* The inputs of the model: texts of inbound messages, the completion      *)
(* API's answers, the CRM's answers.                                      *)
(***************************************************************************)
\* "привет"
MSG_HELLO ==
    <<1087, 1088, 1080, 1074, 1077, 1090>>

\* "как заменить цепь самому"
MSG_DIY ==
    <<1082, 1072, 1082, 32, 1079, 1072, 1084, 1077, 1085, 1080, 1090, 1100, 32, 1094, 1077, 1087,
    1100, 32, 1089, 1072, 1084, 1086, 1084, 1091>>

\* "+27821234567"
MSG_PHONE ==
    <<43, 50, 55, 56, 50, 49, 50, 51, 52, 53, 54, 55>>

\* "как снять цепь самому +27821234567"
MSG_DIY_PHONE ==
    <<1082, 1072, 1082, 32, 1089, 1085, 1103, 1090, 1100, 32, 1094, 1077, 1087, 1100, 32, 1089,
    1072, 1084, 1086, 1084, 1091, 32, 43, 50, 55, 56, 50, 49, 50, 51, 52, 53, 54, 55>>

\* "нужен эвакуатор"
MSG_TOW ==
    <<1085, 1091, 1078, 1077, 1085, 32, 1101, 1074, 1072, 1082, 1091, 1072, 1090, 1086, 1088>>

\* "часы работы"
MSG_HOURS ==
    <<1095, 1072, 1089, 1099, 32, 1088, 1072, 1073, 1086, 1090, 1099>>

\* "  "
MSG_BLANK ==
    <<32, 32>>

\* "Оформил"
MSG_NAME ==
    <<1054, 1092, 1086, 1088, 1084, 1080, 1083>>

\* "меня зовут Иван Петрович Сидоров": five words
MSG_LONG_NAME ==
    <<1084, 1077, 1085, 1103, 32, 1079, 1086, 1074, 1091, 1090, 32, 1048, 1074, 1072, 1085, 32,
    1055, 1077, 1090, 1088, 1086, 1074, 1080, 1095, 32, 1057, 1080, 1076, 1086, 1088, 1086, 1074>>
\* "А" 40 times
MSG_FORTY ==
    <<1040, 1040, 1040, 1040, 1040, 1040, 1040, 1040, 1040, 1040, 1040, 1040, 1040, 1040, 1040,
    1040, 1040, 1040, 1040, 1040, 1040, 1040, 1040, 1040, 1040, 1040, 1040, 1040, 1040, 1040, 1040,
    1040, 1040, 1040, 1040, 1040, 1040, 1040, 1040, 1040>>
\* "А" 41 times
MSG_LONG_WORD ==
    <<1040, 1040, 1040, 1040, 1040, 1040, 1040, 1040, 1040, 1040, 1040, 1040, 1040, 1040, 1040,
    1040, 1040, 1040, 1040, 1040, 1040, 1040, 1040, 1040, 1040, 1040, 1040, 1040, 1040, 1040, 1040,
    1040, 1040, 1040, 1040, 1040, 1040, 1040, 1040, 1040, 1040>>

\* "Опишите симптомы."
GEN_PLAIN ==
    <<1054, 1087, 1080, 1096, 1080, 1090, 1077, 32, 1089, 1080, 1084, 1087, 1090, 1086, 1084, 1099,
    46>>

\* "Я записал вас на завтра. Ждём!"
GEN_BOOKED ==
    <<1071, 32, 1079, 1072, 1087, 1080, 1089, 1072, 1083, 32, 1074, 1072, 1089, 32, 1085, 1072, 32,
    1079, 1072, 1074, 1090, 1088, 1072, 46, 32, 1046, 1076, 1105, 1084, 33>>

\* "Записал вас на завтра"
GEN_ONLY_BOOKED ==
    <<1047, 1072, 1087, 1080, 1089, 1072, 1083, 32, 1074, 1072, 1089, 32, 1085, 1072, 32, 1079,
    1072, 1074, 1090, 1088, 1072>>

\* "Открутите болт и снимите цепь."
GEN_REPAIR ==
    <<1054, 1090, 1082, 1088, 1091, 1090, 1080, 1090, 1077, 32, 1073, 1086, 1083, 1090, 32, 1080,
    32, 1089, 1085, 1080, 1084, 1080, 1090, 1077, 32, 1094, 1077, 1087, 1100, 46>>

\* "Вот гайд: это просто."
GEN_GUIDE ==
    <<1042, 1086, 1090, 32, 1075, 1072, 1081, 1076, 58, 32, 1101, 1090, 1086, 32, 1087, 1088, 1086,
    1089, 1090, 1086, 46>>

\* "Иван"
USER_FIRST_NAME ==
    <<1048, 1074, 1072, 1085>>

\* "bad request"
CRM_ERROR_BODY ==
    <<98, 97, 100, 32, 114, 101, 113, 117, 101, 115, 116>>

\* "timed out"
CRM_EXCEPTION_TEXT ==
    <<116, 105, 109, 101, 100, 32, 111, 117, 116>>

\* f"Эхо: {text}" up to the text
WA_ECHO_PREFIX ==
    <<1069, 1093, 1086, 58, 32>>
\* f"Техническая пауза: {e}" up to the exception
WA_PAUSE_PREFIX ==
    <<1058, 1077, 1093, 1085, 1080, 1095, 1077, 1089, 1082, 1072, 1103, 32, 1087, 1072, 1091, 1079,
    1072, 58, 32>>
\* msg["from"] of the messages
WA_FROM ==
    <<50, 55, 56, 50, 49, 50, 51, 52, 53, 54, 55>>
\* str(e) of an exception of the request
WA_TIMEOUT_TEXT ==
    <<116, 105, 109, 101, 100, 32, 111, 117, 116>>
\* "Часы,"
Q_HOURS ==
    <<1063, 1072, 1089, 1099, 44>>
\* "работы"
Q_WORK ==
    <<1088, 1072, 1073, 1086, 1090, 1099>>
\* "когда"
Q_WHEN ==
    <<1082, 1086, 1075, 1076, 1072>>
\* "время"
Q_TIME ==
    <<1074, 1088, 1077, 1084, 1103>>
\* "эвакуатор?"
Q_TOW ==
    <<1101, 1074, 1072, 1082, 1091, 1072, 1090, 1086, 1088, 63>>
\* "как"
Q_HOW ==
    <<1082, 1072, 1082>>
\* "стоимость"
Q_COST ==
    <<1089, 1090, 1086, 1080, 1084, 1086, 1089, 1090, 1100>>
\* "диагностика"
Q_DIAG ==
    <<1076, 1080, 1072, 1075, 1085, 1086, 1089, 1090, 1080, 1082, 1072>>
\* "привет"
Q_HELLO ==
    <<1087, 1088, 1080, 1074, 1077, 1090>>
\* "часы"
W_chasy ==
    <<1095, 1072, 1089, 1099>>
\* "+27 71 "
P_PREFIX ==
    <<43, 50, 55, 32, 55, 49, 32>>
\* "234"
P_234 ==
    <<50, 51, 52>>
\* " 5678"
P_5678 ==
    <<32, 53, 54, 55, 56>>
\* "12345678"
P_EIGHT ==
    <<49, 50, 51, 52, 53, 54, 55, 56>>
\* "٢٣٤"
P_ARABIC ==
    <<1634, 1635, 1636>>
\* "abc-"
P_LETTERS ==
    <<97, 98, 99, 45>>
\* "Honda CB500"
F_MODEL ==
    <<72, 111, 110, 100, 97, 32, 67, 66, 53, 48, 48>>
\* "ca 123-456"
F_PLATE ==
    <<99, 97, 32, 49, 50, 51, 45, 52, 53, 54>>
\* "15 000 km"
F_ODOMETER ==
    <<49, 53, 32, 48, 48, 48, 32, 107, 109>>
\* "не заводится"
F_ISSUE ==
    <<1085, 1077, 32, 1079, 1072, 1074, 1086, 1076, 1080, 1090, 1089, 1103>>
\* "yes"
F_YES ==
    <<121, 101, 115>>
\* "ab"
F_SHORT ==
    <<97, 98>>
\* "cancel it"
F_CANCEL ==
    <<99, 97, 110, 99, 101, 108, 32, 105, 116>>
\* "cancel"
CANCEL_WORD ==
    <<99, 97, 110, 99, 101, 108>>

\* update.effective_user of the messages
USER_IVAN ==
    [is_none |-> FALSE, first_name |-> USER_FIRST_NAME, last_name |-> None, username |-> None,
     id |-> 42]
Users == {USER_IVAN}

\* message.text of the inbound messages
Texts == {MSG_DIY, MSG_PHONE, MSG_DIY_PHONE, MSG_TOW, MSG_HOURS, MSG_NAME}

\* choices[0].message.content of the completion API's 200 answers
Contents == {GEN_PLAIN, GEN_BOOKED, GEN_ONLY_BOOKED, None}

\* statuses of the completion API other than 200 and the retried ones
OtherStatuses == {400, 401}

\* the "id" of the CRM's answers
CrmIds == {<<101>>, None}
\* the statuses and bodies of the CRM's errors
CrmErrorStatuses == {500}

\* s repeated n times
Repeated(s, n) == [i \in 1..(n * Len(s)) |-> s[((i - 1) % Len(s)) + 1]]
\* "Опишите симптомы. " 67 times (1206 characters), then "Открутите болт и снимите цепь.":
\* a generated text whose first repair verb stands behind its 1200th character
GEN_LONG == Repeated(GEN_PLAIN \o <<32>>, 67) \o GEN_REPAIR

\* the inbound messages and the completion API's answers of SpecAi
AiTexts == {MSG_HELLO}
AiContents == {GEN_PLAIN, GEN_BOOKED, GEN_REPAIR, GEN_GUIDE, GEN_LONG, None}

\* the inbound messages and the completion API's answers of SpecHist
HistTexts == {MSG_HELLO, MSG_BLANK, MSG_TOW}
HistContents == {GEN_PLAIN, GEN_ONLY_BOOKED}
\* the inbound messages and the completion API's answers of SpecHint
HintTexts == {MSG_HELLO, MSG_PHONE}
HintContents == {GEN_PLAIN}
\* the inbound messages of SpecName: texts the name step takes and texts it refuses
NameTexts ==
    {MSG_HOURS, MSG_NAME, MSG_DIY, MSG_FORTY, MSG_BLANK, MSG_PHONE, MSG_LONG_NAME, MSG_LONG_WORD}
\* the inbound messages of main.py in SpecNoKey: two texts that reach ai_reply
NoKeyTexts == {MSG_HELLO, MSG_NAME}
\* the inbound messages of SpecContext: texts that reach ai_reply, one of them with one
\* token of a knowledge-base entry, and a text the knowledge base answers
ContextTexts == {MSG_HELLO, W_chasy, MSG_HOURS}
\* a message of a request of the Cloud API
WaText(body) == [type |-> "text", from |-> WA_FROM, body |-> body]
WA_IMAGE == [type |-> "image", from |-> WA_FROM, body |-> <<>>]
\* value["messages"] of the requests
WaRequests ==
    {<<WaText(MSG_HELLO)>>, <<WaText(MSG_DIY)>>, <<WA_IMAGE, WaText(MSG_HELLO)>>,
     <<WaText(MSG_HELLO), WaText(MSG_DIY)>>}
\* choices[0].message.content of the 200 answers to wa_server.py
WaContents == {GEN_PLAIN}
\* the words of the queries to kb_search: words of the entries, synonyms of CANON, a
\* word of no entry; some with a capital or a punctuation mark
KbWords == {Q_HOURS, Q_WORK, Q_WHEN, Q_TIME, Q_TOW, Q_HOW, Q_COST, Q_DIAG, Q_HELLO}
\* the queries: up to MaxQueryWords words with a space between them, the empty query too
KbQueries ==
    {Join(ws, <<32>>) : ws \in UNION {[1..n -> KbWords] : n \in 0..MaxQueryWords}}
\* the pieces of the inputs of normalize_phone: digits with a "+", spaces and a hyphen,
\* eight digits, Arabic-Indic digits, letters
PhoneChunks == {P_PREFIX, P_234, P_5678, P_EIGHT, P_ARABIC, P_LETTERS}
\* the inputs: up to MaxPhoneChunks pieces one behind the other, the empty string too
PhoneInputs ==
    {Join(cs, <<>>) : cs \in UNION {[1..n -> PhoneChunks] : n \in 0..MaxPhoneChunks}}
\* "+27 71 234 5678" and "+27712345678"
PHONE_SPACED == P_PREFIX \o P_234 \o P_5678
PHONE_PLAIN == <<43, 50, 55, 55, 49, 50, 51, 52, 53, 54, 55, 56>>
\* the text messages to the intake form: a phone, a make and model, a plate, an
\* odometer reading, an issue, a confirmation, a text too short for a plate, and a
\* text with the cancel keyword
FormTexts == {PHONE_SPACED, F_MODEL, F_PLATE, F_ODOMETER, F_ISSUE, F_YES, F_SHORT, F_CANCEL}
\* a payload of the Cloud API: entries, their changes, and the messages of each
WaChange(msgs) == [value |-> [messages |-> msgs]]
WaEntry(changes) == [changes |-> changes]
WaPayload(entries) == [entry |-> entries]
\* the payloads of SpecWa: none, one and several messages, in one change, in two changes
\* of an entry and in two entries, with a message that is no text among them
WaPayloads ==
    {WaPayload(<<>>),
     WaPayload(<<WaEntry(<<WaChange(<<WaText(MSG_HELLO)>>)>>)>>),
     WaPayload(<<WaEntry(<<WaChange(<<WA_IMAGE>>)>>)>>),
     WaPayload(<<WaEntry(<<WaChange(<<WaText(MSG_HELLO), WA_IMAGE, WaText(MSG_DIY)>>)>>)>>),
     WaPayload(<<WaEntry(<<WaChange(<<WaText(MSG_DIY)>>), WaChange(<<WaText(MSG_HELLO)>>)>>)>>),
     WaPayload(<<WaEntry(<<WaChange(<<WaText(MSG_HOURS)>>), WaChange(<<>>)>>),
                 WaEntry(<<WaChange(<<WA_IMAGE, WaText(MSG_DIY)>>)>>)>>)}
(***************************************************************************)
(* The pure functions of the source on the texts of the model, computed     *)
(* once.  f_of(x) above computes what f of the source returns on x; f(x)    *)
(* here is the same value, looked up when x is one of the texts of the      *)
(* model and computed otherwise.                                            *)
(***************************************************************************)
\* message.text of the inbound messages, of all specifications, after text.strip()
InboundTexts ==
    {Strip(raw) : raw \in Texts \cup AiTexts \cup HistTexts \cup HintTexts \cup NameTexts \cup NoKeyTexts
                           \cup ContextTexts}

\* choices[0].message.content of the 200 answers, of all specifications
AllContents == Contents \cup AiContents \cup HistContents \cup HintContents

\* what ai_reply can return
AiReturns ==
    {GeneratedReply_of(c) : c \in AllContents}
        \cup {NO_KEY_REPLY, HIGH_LOAD_REPLY} \cup {TechError(s) : s \in OtherStatuses}

\* a function written out as its graph, so that its values are computed once
Table(f) == f @@ [x \in {} |-> x]

Memo(table, x, value) == IF x \in DOMAIN table THEN table[x] ELSE value

T_is_diy_request == Table([t \in InboundTexts |-> is_diy_request_of(t)])
is_diy_request(text) == Memo(T_is_diy_request, text, is_diy_request_of(text))

T_extract_phone == Table([t \in InboundTexts |-> extract_phone_of(t)])
extract_phone(text) == Memo(T_extract_phone, text, extract_phone_of(text))

\* any text that is not empty taken for a name
looks_like_name_nonempty(text) == Strip(text) # <<>>

T_looks_like_name == Table([t \in InboundTexts |-> looks_like_name_of(t)])
looks_like_name(text) == Memo(T_looks_like_name, text, looks_like_name_of(text))

T_quick_intent_answer == Table([t \in InboundTexts |-> quick_intent_answer_of(t)])
quick_intent_answer(text) == Memo(T_quick_intent_answer, text, quick_intent_answer_of(text))

T_kb_search == Table([t \in InboundTexts |-> kb_search_of(t)])
kb_search(text) == Memo(T_kb_search, text, kb_search_of(text))

\* the generated text returned as it is
GeneratedReplyUnfiltered(content) == GeneratedText(content)

T_GeneratedReply == Table([c \in AllContents |-> GeneratedReply_of(c)])
GeneratedReply(content) == Memo(T_GeneratedReply, content, GeneratedReply_of(content))

\* the booking phrases left in
sanitize_ai_reply_kept(text, has_inquiry) == Strip(text)

T_sanitize_ai_reply == Table([a \in AiReturns \X BOOLEAN |-> sanitize_ai_reply_of(a[1], a[2])])
sanitize_ai_reply(text, has_inquiry) ==
    Memo(T_sanitize_ai_reply, <<text, has_inquiry>>, sanitize_ai_reply_of(text, has_inquiry))

(***************************************************************************)
(* The state.                                                              *)
(***************************************************************************)
VARIABLES
    env,        \* the environment read at import: CHANNEL, RO (is there a CRM client),
                \* OPENAI_API_KEY (is there a key)
    user_data,  \* context.user_data of the conversation
    heap,       \* the list objects that hold a history, by identity
    procs,      \* the handler invocations of the conversation: position and locals
    turns,      \* handler invocations begun so far
    last,       \* what the handler that returned last did (an observation)
    pushed,     \* every turn push_history stored since the last /start (an observation)
    leads,      \* create_inquiry calls that have succeeded (an observation)
    eligible,   \* the replies maybe_phone_hint counted: in the session, and since the
                \* last /start (an observation)
    wa,         \* wa_server.py: the requests `incoming` is handling or has handled, the
                \* ai_reply calls that returned and the replies posted
    call,       \* the last call of a function of main.py made on its own: the function,
                \* its argument and what it returned (an observation)
    form        \* the intake form of the conversation: formState, draft, the records
                \* stored, and what the form did since it was started (an observation)

vars == <<env, user_data, heap, procs, turns, last, pushed, leads, eligible, wa, call, form>>

\* the handler invocations of the conversation that can be under way: one, since the
\* Application is built with its default (concurrent_updates off, main.py 501) and
\* takes the next update of its queue when the handler of the last one has returned
Procs == {1}
\* a list for user_data and one for the handler under way
ListIds == {1, 2}

\* bool(x) of an optional text
Truthy(x) == x # None /\ x # <<>>
\* bool(x) of an optional number, written None or <<n>>
TruthyId(x) == x # None /\ x[1] # 0

\* context.user_data of a new conversation: no key is set
NewUserData ==
    [hist |-> 0, hint_count |-> 0, await_name |-> FALSE, name |-> None, phone |-> None,
     inquiry_id |-> None]

NoObs ==
    [kind |-> "none", text |-> <<>>, pre |-> NewUserData, branch |-> <<>>, sent |-> <<>>,
     crm_calls |-> 0, crm_result |-> "none", crm_req |-> <<>>,
     http_attempts |-> 0, sleeps |-> <<>>, outcomes |-> <<>>, ai_calls |-> 0,
     ai_raw |-> None, ai_status |-> 0, ai_ret |-> None, ai_req |-> <<>>]

IdleProc ==
    [pc |-> "idle", text |-> <<>>, hist |-> 0, phone |-> None, name |-> None,
     i |-> 0, backoff |-> 0, obs |-> NoObs]

\* the observation of a handler that begins on `text`
NewObs(kind, text) == [NoObs EXCEPT !.kind = kind, !.text = text, !.pre = user_data]

\* await update.message.reply_text(text)
Send(obs, text) == [obs EXCEPT !.sent = Append(@, text)]

\* the lists something still refers to
Referenced(ud, ps) == ({ud.hist} \cup {ps[q].hist : q \in {r \in Procs : ps[r].pc # "idle"}}) \ {0}

\* a list nothing refers to any more is gone
Gc(h, ud, ps) == [l \in ListIds |-> IF l \in Referenced(ud, ps) THEN h[l] ELSE <<>>]

\* [] : a new list object
FreshList == Min(ListIds \ Referenced(user_data, procs))

\* the turn push_history stores for a content
StoredTurn(role, content) == [role |-> role, content |-> Take(Strip(content), MaxTurnChars)]
Log(log, role, content) == IF content # <<>> THEN Append(log, StoredTurn(role, content)) ELSE log

\* a reply of the completion fallback that maybe_phone_hint counts: the channel is not
\* WhatsApp and the session holds no phone (main.py, 364)
IsEligible(obs) ==
    /\ obs.kind = "text" /\ obs.branch = <<"ai">>
    /\ env.CHANNEL # "whatsapp" /\ ~Truthy(obs.pre.phone)

\* the count of the eligible replies behind the handler that did obs
Counted(obs) ==
    IF obs.kind = "start" THEN [eligible EXCEPT !.since_start = 0]
    ELSE IF IsEligible(obs) THEN [total |-> eligible.total + 1,
                                  since_start |-> eligible.since_start + 1]
    ELSE eligible

\* an effect e of a step of handler p: the new user_data, heap, handler, log and leads.
\* A handler whose new position is "idle" has returned, and `last` is what it did;
\* `last` is blank from the beginning of a handler that suspends.
Apply(p, e) ==
    LET ps == [procs EXCEPT ![p] = IF e.proc.pc = "idle" THEN IdleProc ELSE e.proc]
    IN  /\ user_data' = e.ud
        /\ procs' = ps
        /\ heap' = Gc(e.heap, e.ud, ps)
        /\ last' = IF e.proc.pc = "idle" THEN e.proc.obs
                   ELSE IF procs[p].pc = "idle" THEN NoObs
                   ELSE last
        /\ pushed' = e.pushed
        /\ leads' = e.leads
        /\ eligible' = IF e.proc.pc = "idle" THEN Counted(e.proc.obs) ELSE eligible
        /\ UNCHANGED <<wa, call, form>>

Effect(ud, h, proc, log, n) == [ud |-> ud, heap |-> h, proc |-> proc, pushed |-> log, leads |-> n]

Returned(proc, obs) == [proc EXCEPT !.pc = "idle", !.obs = obs]

Channels == {"telegram", "whatsapp"}

\* the draft with no field filled
EmptyDraft == [phone |-> None, makeModel |-> None, plate |-> None, odometer |-> None, issue |-> None]

\* a session with no form in progress and nothing stored
NoForm == [formState |-> "NONE", draft |-> EmptyDraft, records |-> <<>>, notified |-> 0,
           trail |-> <<>>, accepted |-> <<>>, clean |-> FALSE, base |-> 0, reply |-> "none",
           steps |-> 0]

\* no function has been called on its own
NoCall == [fn |-> "none", arg |-> None, out |-> None, best |-> <<0, None>>]

\* wa_server.py before its first request
WaIdle == [reqs |-> <<>>, returns |-> <<>>, sent |-> <<>>]

Init ==
    /\ env \in [CHANNEL : Channels, RO : BOOLEAN, OPENAI_API_KEY : BOOLEAN]
    /\ user_data = NewUserData
    /\ heap = [l \in ListIds |-> <<>>]
    /\ procs = [p \in Procs |-> IdleProc]
    /\ turns = 0
    /\ last = NoObs
    /\ pushed = <<>>
    /\ leads = 0
    /\ eligible = [total |-> 0, since_start |-> 0]
    /\ wa = WaIdle
    /\ call = NoCall
    /\ form = NoForm

(***************************************************************************)
(* /start and /id (main.py, 343-352).                                      *)
(***************************************************************************)
start_cmd(p) ==
    /\ procs[p].pc = "idle"
    /\ turns' = turns + 1
    /\ UNCHANGED env
    /\ LET l   == FreshList
           ud  == [user_data EXCEPT !.hist = l, !.hint_count = 0]
           obs == Send(NewObs("start", <<>>),
                       IF env.CHANNEL = "whatsapp" THEN WELCOME_WA ELSE WELCOME_TG)
       IN  Apply(p, Effect(ud, [heap EXCEPT ![l] = <<>>], Returned(procs[p], obs), <<>>, leads))

id_cmd(p, u) ==
    /\ procs[p].pc = "idle"
    /\ ~u.is_none
    /\ turns' = turns + 1
    /\ UNCHANGED env
    /\ LET obs == Send(NewObs("id", <<>>), ID_REPLY_PREFIX \o Decimal(u.id) \o ID_REPLY_SUFFIX)
       IN  Apply(p, Effect(user_data, heap, Returned(procs[p], obs), pushed, leads))

(***************************************************************************)
(* handle_text (main.py, 370-459).                                         *)
(***************************************************************************)
Branch(obs, b) == [obs EXCEPT !.branch = Append(@, b)]

\* cnt % 3 == 0
HintEvery == 3

\* the hint on the third, sixth, ... counted reply instead of the first, fourth, ...
maybe_phone_hint_third(ud, k) ==
    IF env.CHANNEL = "whatsapp" \/ Truthy(ud.phone) THEN << <<>>, ud.hint_count >>
    ELSE << IF ud.hint_count % HintEvery = HintEvery - 1 THEN PHONE_HINTS[k] ELSE <<>>,
            ud.hint_count + 1 >>

\* the counter kept below HintEvery
maybe_phone_hint_wrapping(ud, k) ==
    IF env.CHANNEL = "whatsapp" \/ Truthy(ud.phone) THEN << <<>>, ud.hint_count >>
    ELSE << IF ud.hint_count % HintEvery = 0 THEN PHONE_HINTS[k] ELSE <<>>,
            (ud.hint_count + 1) % HintEvery >>

\* maybe_phone_hint(context) on user_data ud: <<the hint, hint_count after the call>>;
\* k is the index random.choice draws
maybe_phone_hint(ud, k) ==
    IF env.CHANNEL = "whatsapp" \/ Truthy(ud.phone) THEN << <<>>, ud.hint_count >>
    ELSE << IF ud.hint_count % HintEvery = 0 THEN PHONE_HINTS[k] ELSE <<>>, ud.hint_count + 1 >>

\* lines 455-459: what handle_text does with the text ret that ai_reply returned
AiFinish(proc, ret, k, ud, h, log) ==
    LET reply == sanitize_ai_reply(ret, TruthyId(ud.inquiry_id))
        h1    == [h EXCEPT ![proc.hist] = push_history(@, "assistant", reply)]
        mh    == maybe_phone_hint(ud, k)
        final == IF mh[1] = <<>> THEN reply ELSE reply \o HINT_SEPARATOR \o mh[1]
        ud1   == [ud EXCEPT !.hint_count = mh[2]]
        obs   == Send([proc.obs EXCEPT !.ai_ret = ret], final)
    IN  Effect(ud1, h1, Returned(proc, obs), Log(log, "assistant", reply), leads)

\* lines 374-382: the message is taken as the name
NameStep(proc, text) ==
    IF looks_like_name(text)
    THEN Effect([user_data EXCEPT !.name = text, !.await_name = FALSE], heap,
                Returned(proc, Send(Branch(proc.obs, "name"),
                                    NAME_THANKS_PREFIX \o text \o NAME_THANKS_SUFFIX)),
                pushed, leads)
    ELSE Effect(user_data, heap, Returned(proc, Send(Branch(proc.obs, "name"), NAME_REPROMPT)),
                pushed, leads)

\* the cut of the description, [:900]
MaxDescriptionChars == 900
\* hist[-3:]
LastMsgsTurns == 3

\* "\n".join([x["content"] for x in hist[-3:] if x["role"] == "user"])
LastMsgs(store) ==
    LET users == SelectSeq(LastN(store, LastMsgsTurns), LAMBDA x : x.role = "user")
    IN  Join([n \in 1..Len(users) |-> users[n].content], <<10>>)

\* ROAPP_SOURCE (main.py, 62)
ROAPP_SOURCE == IF env.CHANNEL = "telegram" THEN SOURCE_TELEGRAM ELSE SOURCE_WHATSAPP

\* lines 395-431 up to the await of create_inquiry
PhoneBranch(proc, u, phone, ud, h, log) ==
    LET name      == IF Truthy(ud.name) THEN ud.name ELSE tg_display_name(u)
        last_msgs == LastMsgs(h[proc.hist])
        ud1       == [ud EXCEPT !.phone = phone]
        obs       == Branch(proc.obs, "phone")
        ack       == Send(obs, PHONE_ACK_PREFIX \o phone \o PHONE_ACK_SUFFIX)
    IN  IF ~env.RO
        THEN IF env.CHANNEL = "whatsapp" /\ ~Truthy(ud1.name)
             THEN Effect([ud1 EXCEPT !.await_name = TRUE], h,
                         Returned(proc, Send(ack, ASK_NAME)), log, leads)
             ELSE Effect(ud1, h, Returned(proc, ack), log, leads)
        ELSE Effect(ud1, h,
                    [proc EXCEPT !.pc = "crm", !.phone = phone, !.name = name,
                                 !.obs = [obs EXCEPT !.crm_calls = @ + 1,
                                              !.crm_req =
                                                  [contact_phone |-> phone, contact_name |-> name,
                                                   title |-> CRM_TITLE,
                                                   description |->
                                                       Take(SOURCE_PREFIX \o ROAPP_SOURCE
                                                                \o SOURCE_SUFFIX \o last_msgs,
                                                            MaxDescriptionChars),
                                                   channel |-> ROAPP_SOURCE]]],
                    log, leads)

\* lines 435-441 and 445-451: a canned answer, with the question for the name on WhatsApp
Canned(proc, branch, answer, ud, h, log) ==
    LET obs == Branch(proc.obs, branch)
    IN  IF env.CHANNEL = "whatsapp" /\ ~Truthy(ud.name)
        THEN Effect([ud EXCEPT !.await_name = TRUE], h,
                    Returned(proc, Send(obs, answer \o ASK_NAME_SUFFIX)), log, leads)
        ELSE Effect(ud, h, Returned(proc, Send(obs, answer)), log, leads)

\* the context block of any answer the knowledge base has for the text
ContextBlockOfAnyAnswer(user_text) ==
    LET best == KbBest(ToSet(canonical_tokens(user_text)), 1, <<0, None>>)
    IN  IF best[1] > 0 THEN CONTEXT_PREFIX \o best[2] ELSE CONTEXT_NONE

\* lines 300-301: kb_ctx = kb_search(user_text) and the context block
ContextBlock(user_text) ==
    LET kb_ctx == kb_search(user_text)
    IN  IF Truthy(kb_ctx) THEN CONTEXT_PREFIX \o kb_ctx ELSE CONTEXT_NONE

\* the history left out of the messages
AiMessagesNoHistory(user_text, history) ==
    << [role |-> "system", content |-> SYSTEM_PROMPT],
       [role |-> "assistant", content |-> ContextBlock(user_text)],
       [role |-> "user", content |-> Take(user_text, MaxTurnChars)] >>

\* lines 303-306: the messages of the request
AiMessages(user_text, history) ==
    << [role |-> "system", content |-> SYSTEM_PROMPT],
       [role |-> "assistant", content |-> ContextBlock(user_text)] >>
        \o history
        \o << [role |-> "user", content |-> Take(user_text, MaxTurnChars)] >>

\* line 454 up to the first await of ai_reply (main.py, 288-316)
AiBranch(proc, k, ud, h, log) ==
    LET obs == [Branch(proc.obs, "ai") EXCEPT !.ai_calls = @ + 1]
    IN  IF ~env.OPENAI_API_KEY
        THEN AiFinish([proc EXCEPT !.obs = obs], NO_KEY_REPLY, k, ud, h, log)
        ELSE Effect(ud, h,
                    [proc EXCEPT !.pc = "ai", !.i = 0, !.backoff = BACKOFF_START,
                                 !.obs = [obs EXCEPT !.ai_req = AiMessages(proc.text, h[proc.hist])]],
                    log, leads)

\* the refusal left out: the message goes on to the completion API
DiyRefusalSkipped(proc, ud, h, log) == AiBranch(proc, 1, ud, h, log)

\* lines 388-390: the fixed refusal
DiyRefusal(proc, ud, h, log) ==
    Effect(ud, h, Returned(proc, Send(Branch(proc.obs, "diy"), DIY_SAFE_REPLY)), log, leads)

\* line 444-454: 3) the knowledge base, and 4) the completion API behind it
KbStage(proc, u, text, k, ud, h, log) ==
    LET kb_answer == kb_search(text)
    IN  IF kb_answer # None THEN Canned(proc, "kb", kb_answer, ud, h, log)
        ELSE AiBranch(proc, k, ud, h, log)

\* the quick answers tried behind the knowledge base
QuickStageLate(proc, u, text, k, ud, h, log) ==
    LET kb_answer == kb_search(text)
        qa        == quick_intent_answer(text)
    IN  IF kb_answer # None THEN Canned(proc, "kb", kb_answer, ud, h, log)
        ELSE IF qa # None THEN Canned(proc, "quick", qa, ud, h, log)
        ELSE AiBranch(proc, k, ud, h, log)

\* lines 434-441: 2a) the quick answers by intent
QuickStage(proc, u, text, k, ud, h, log) ==
    LET qa == quick_intent_answer(text)
    IN  IF qa # None THEN Canned(proc, "quick", qa, ud, h, log)
        ELSE KbStage(proc, u, text, k, ud, h, log)

\* the phone number looked for on every channel
PhoneStageAnyChannel(proc, u, text, k, ud, h, log) ==
    LET phone == extract_phone(text)
    IN  IF phone # None THEN PhoneBranch(proc, u, phone, ud, h, log)
        ELSE QuickStage(proc, u, text, k, ud, h, log)

\* lines 393-431: 2) a phone number in the text, on Telegram
PhoneStage(proc, u, text, k, ud, h, log) ==
    LET phone == IF env.CHANNEL = "telegram" THEN extract_phone(text) ELSE None
    IN  IF phone # None THEN PhoneBranch(proc, u, phone, ud, h, log)
        ELSE QuickStage(proc, u, text, k, ud, h, log)

\* the phone number looked for before the DIY patterns
DiyStageLate(proc, u, text, k, ud, h, log) ==
    LET phone == IF env.CHANNEL = "telegram" THEN extract_phone(text) ELSE None
    IN  IF phone # None THEN PhoneBranch(proc, u, phone, ud, h, log)
        ELSE IF is_diy_request(text) THEN DiyRefusal(proc, ud, h, log)
        ELSE QuickStage(proc, u, text, k, ud, h, log)

\* lines 388-390: 1) DIY
DiyStage(proc, u, text, k, ud, h, log) ==
    IF is_diy_request(text) THEN DiyRefusal(proc, ud, h, log)
    ELSE PhoneStage(proc, u, text, k, ud, h, log)

\* handle_text from its first line to its first await, or to its return
HandleTextEffect(p, raw, u, k) ==
    LET text == Strip(raw)
        l    == IF user_data.hist # 0 /\ heap[user_data.hist] # <<>> THEN user_data.hist
                ELSE FreshList
        proc == [procs[p] EXCEPT !.text = text, !.hist = l, !.obs = NewObs("text", text)]
    IN  IF user_data.await_name THEN NameStep(proc, text)
        ELSE DiyStage(proc, u, text, k, [user_data EXCEPT !.hist = l],
                      [heap EXCEPT ![l] = push_history(@, "user", text)],
                      Log(pushed, "user", text))

\* catch_all and handle_text: a text message arrives and is handled up to the first await
handle_text(p, raw, u, k) ==
    /\ procs[p].pc = "idle"
    /\ raw # <<>>
    /\ turns' = turns + 1
    /\ UNCHANGED env
    /\ Apply(p, HandleTextEffect(p, raw, u, k))

(***************************************************************************)
(* create_inquiry answers (main.py, 407-431).                              *)
(***************************************************************************)
\* "{}".format(inq_id)
FormatId(idv) == IF idv = None THEN NONE_TEXT ELSE Decimal(idv[1])

\* the id of the first lead kept when the session holds one
CrmOkKeepsFirst(p, idv) ==
    /\ procs[p].pc = "crm"
    /\ UNCHANGED <<env, turns>>
    /\ LET proc == procs[p]
           kept == IF TruthyId(user_data.inquiry_id) THEN user_data.inquiry_id ELSE idv
           obs  == Send([proc.obs EXCEPT !.crm_result = "ok"],
                        CRM_OK_PREFIX \o FormatId(idv) \o CRM_OK_PHONE \o proc.phone
                            \o CRM_OK_NAME \o proc.name \o CRM_OK_SUFFIX)
       IN  Apply(p, Effect([user_data EXCEPT !.inquiry_id = kept], heap, Returned(proc, obs),
                           pushed, leads + 1))

\* r.json() is a dict; idv is its "id", None when it has none
CrmOk(p, idv) ==
    /\ procs[p].pc = "crm"
    /\ UNCHANGED <<env, turns>>
    /\ LET proc == procs[p]
           obs  == Send([proc.obs EXCEPT !.crm_result = "ok"],
                        CRM_OK_PREFIX \o FormatId(idv) \o CRM_OK_PHONE \o proc.phone
                            \o CRM_OK_NAME \o proc.name \o CRM_OK_SUFFIX)
       IN  Apply(p, Effect([user_data EXCEPT !.inquiry_id = idv], heap, Returned(proc, obs),
                           pushed, leads + 1))

\* the cut of the CRM's error body, [:600]
MaxErrorBodyChars == 600

\* raise_for_status() raises httpx.HTTPStatusError
CrmHttpError(p, status, body) ==
    /\ procs[p].pc = "crm"
    /\ UNCHANGED <<env, turns>>
    /\ LET proc == procs[p]
           obs  == Send([proc.obs EXCEPT !.crm_result = "http_error"],
                        CRM_HTTP_ERROR_PREFIX \o Decimal(status) \o <<10>>
                            \o Take(body, MaxErrorBodyChars))
       IN  Apply(p, Effect(user_data, heap, Returned(proc, obs), pushed, leads))

\* any other exception, with str(e) = msg
CrmException(p, msg) ==
    /\ procs[p].pc = "crm"
    /\ UNCHANGED <<env, turns>>
    /\ LET proc == procs[p]
           obs  == Send([proc.obs EXCEPT !.crm_result = "exception"], CRM_TECH_ERROR_PREFIX \o msg)
       IN  Apply(p, Effect(user_data, heap, Returned(proc, obs), pushed, leads))

(***************************************************************************)
(* The attempts of ai_reply (main.py, 311-329).                            *)
(***************************************************************************)
Attempt(obs, outcome) ==
    [obs EXCEPT !.http_attempts = @ + 1, !.outcomes = Append(@, outcome)]

\* status 200 and a body that carries `content`
AiOk(p, content, k) ==
    /\ procs[p].pc = "ai"
    /\ UNCHANGED <<env, turns>>
    /\ LET proc == [procs[p] EXCEPT !.obs = [Attempt(@, "ok") EXCEPT !.ai_raw = content]]
       IN  Apply(p, AiFinish(proc, GeneratedReply(content), k, user_data, heap, pushed))

\* await asyncio.sleep(backoff); backoff = min(backoff * 2, 16); the next round of the
\* loop, or the return behind the loop when this was the last round
AiRetry(p, outcome, k) ==
    LET proc == [procs[p] EXCEPT !.i = @ + 1, !.backoff = NextBackoff(@),
                                 !.obs = [Attempt(@, outcome) EXCEPT
                                              !.sleeps = Append(@, procs[p].backoff)]]
    IN  IF proc.i = MAX_ATTEMPTS
        THEN AiFinish(proc, HIGH_LOAD_REPLY, k, user_data, heap, pushed)
        ELSE Effect(user_data, heap, proc, pushed, leads)

\* a status of (429, 500, 502, 503, 504)
AiRetryable(p, status, k) ==
    /\ procs[p].pc = "ai"
    /\ status \in RETRY_STATUSES
    /\ UNCHANGED <<env, turns>>
    /\ Apply(p, AiRetry(p, "retryable", k))

\* the request, r.json() or the indexing of the body raises
AiException(p, k) ==
    /\ procs[p].pc = "ai"
    /\ UNCHANGED <<env, turns>>
    /\ Apply(p, AiRetry(p, "exception", k))

\* any other status retried like a 5xx
AiOtherStatusRetried(p, status, k) ==
    /\ procs[p].pc = "ai"
    /\ status \notin RETRY_STATUSES \cup {200}
    /\ UNCHANGED <<env, turns>>
    /\ Apply(p, AiRetry(p, "other", k))

\* any other status
AiOtherStatus(p, status, k) ==
    /\ procs[p].pc = "ai"
    /\ status \notin RETRY_STATUSES \cup {200}
    /\ UNCHANGED <<env, turns>>
    /\ LET proc == [procs[p] EXCEPT !.obs = [Attempt(@, "other") EXCEPT !.ai_status = status]]
       IN  Apply(p, AiFinish(proc, TechError(status), k, user_data, heap, pushed))


(***************************************************************************)
(* wa_server.py: the webhook of the WhatsApp Cloud API.  Its ai_reply      *)
(* (15-38) and its handler `incoming` (47-74), which answers the text      *)
(* messages of a request one after the other.  The server begins a         *)
(* request while others are under way: wa.reqs holds the requests in the   *)
(* order they came in, wa.returns and wa.sent what all of them did, in the *)
(* order it happened.  It reads OPENAI_API_KEY of the same environment.    *)
(***************************************************************************)
\* the echo without the text
WaNoKeyReplyFixed(text) == WA_ECHO_PREFIX

\* line 20: return f"Эхо: {text}"
WaNoKeyReply(text) == WA_ECHO_PREFIX \o text

\* ai_reply of request r has returned ret after `attempts` requests
WaReturned(w, r, ret) ==
    [w EXCEPT !.reqs[r].pc = "send", !.reqs[r].ret = ret,
              !.returns = Append(@, [req |-> r, text |-> w.reqs[r].body, ret |-> ret,
                                     attempts |-> w.reqs[r].attempts])]

\* the loop of `incoming` for request r from the head of its queue to its next await,
\* or to its return
RECURSIVE WaLoop(_, _)
WaLoop(w, r) ==
    LET q == w.reqs[r]
    IN  IF q.queue = <<>>
        THEN [w EXCEPT !.reqs[r] = [q EXCEPT !.pc = "done", !.body = <<>>, !.attempts = 0,
                                             !.ret = None, !.status = "ok"]]
        ELSE IF Head(q.queue).type # "text" THEN WaLoop([w EXCEPT !.reqs[r].queue = Tail(@)], r)
        ELSE LET w1 == [w EXCEPT !.reqs[r] = [q EXCEPT !.body = Head(q.queue).body,
                                                       !.attempts = 0, !.ret = None]]
             IN  IF ~env.OPENAI_API_KEY THEN WaReturned(w1, r, WaNoKeyReply(Head(q.queue).body))
                 ELSE [w1 EXCEPT !.reqs[r].pc = "ai", !.reqs[r].attempts = 1]

\* the loops of `incoming` over entries, changes and messages (lines 52-56): the
\* messages of the payload in the order they are handled
WaMessagesOf(data) ==
    Flatten([e \in DOMAIN data.entry |->
                Flatten([c \in DOMAIN data.entry[e].changes |->
                            data.entry[e].changes[c].value.messages])])

\* the ai_reply calls a request will make
TextCount(msgs) == Len(SelectSeq(msgs, LAMBDA m : m.type = "text"))

\* the text messages of all the requests that came in
RECURSIVE TextsAccepted(_)
TextsAccepted(reqs) ==
    IF reqs = <<>> THEN 0 ELSE TextCount(Head(reqs).request) + TextsAccepted(Tail(reqs))

\* a request with the messages msgs, as it comes in
WaRequest(msgs) ==
    [pc |-> "new", queue |-> msgs, request |-> msgs, body |-> <<>>, attempts |-> 0,
     ret |-> None, status |-> "none"]

\* POST /whatsapp/webhook with the messages msgs: the handler runs to its first await,
\* whatever the requests before it are waiting for
incoming(msgs) ==
    /\ wa' = WaLoop([wa EXCEPT !.reqs = Append(@, WaRequest(msgs))], Len(wa.reqs) + 1)
    /\ UNCHANGED <<env, user_data, heap, procs, turns, last, pushed, leads, eligible, call, form>>

\* request r waits at `await` number pc
WaAt(r, pc) == r \in DOMAIN wa.reqs /\ wa.reqs[r].pc = pc

\* status 200 and a body that carries the text `content`
WaAiOk(r, content) ==
    /\ WaAt(r, "ai")
    /\ wa' = WaReturned(wa, r, Strip(content))
    /\ UNCHANGED <<env, user_data, heap, procs, turns, last, pushed, leads, eligible, call, form>>

\* the exception of ai_reply not caught: `incoming` ends with it
WaAiExceptionAborts(r, msg) ==
    /\ WaAt(r, "ai")
    /\ wa' = [wa EXCEPT !.reqs[r] = [@ EXCEPT !.pc = "done", !.queue = <<>>, !.body = <<>>,
                                              !.attempts = 0, !.ret = None, !.status = "ai_raised"]]
    /\ UNCHANGED <<env, user_data, heap, procs, turns, last, pushed, leads, eligible, call, form>>

\* except Exception as e, with str(e) = msg: the request or raise_for_status() raises, or
\* the body is not of the expected shape
WaAiException(r, msg) ==
    /\ WaAt(r, "ai")
    /\ wa' = WaReturned(wa, r, WA_PAUSE_PREFIX \o msg)
    /\ UNCHANGED <<env, user_data, heap, procs, turns, last, pushed, leads, eligible, call, form>>

\* the reply is posted to the Cloud API, whose status is not looked at; the loop goes on
WaSent(r) ==
    /\ WaAt(r, "send")
    /\ wa' = WaLoop([wa EXCEPT !.reqs[r].queue = Tail(@),
                               !.sent = Append(@, [req |-> r, to |-> Head(wa.reqs[r].queue).from,
                                                   body |-> wa.reqs[r].ret])], r)
    /\ UNCHANGED <<env, user_data, heap, procs, turns, last, pushed, leads, eligible, call, form>>

\* the post of the reply raises: `incoming` ends with the exception
WaSendRaises(r) ==
    /\ WaAt(r, "send")
    /\ wa' = [wa EXCEPT !.reqs[r] = [@ EXCEPT !.pc = "done", !.queue = <<>>, !.body = <<>>,
                                              !.attempts = 0, !.ret = None, !.status = "post_raised"]]
    /\ UNCHANGED <<env, user_data, heap, procs, turns, last, pushed, leads, eligible, call, form>>

(***************************************************************************)
(* Functions of main.py called on their own, once from the initial state.  *)
(***************************************************************************)
\* kb_search(query): what it returns, and <<best_score, best_answer>> behind its loop
KbCall(query) ==
    [fn |-> "kb_search", arg |-> query, out |-> kb_search_of(query),
     best |-> KbBest(ToSet(canonical_tokens(query)), 1, <<0, None>>)]

T_KbCall == Table([t \in KbQueries |-> KbCall(t)])

kb_search_call(query) ==
    /\ call.fn = "none"
    /\ call' = Memo(T_KbCall, query, KbCall(query))
    /\ UNCHANGED <<env, user_data, heap, procs, turns, last, pushed, leads, eligible, wa, form>>

\* normalize_phone(raw)
normalize_phone_call(raw) ==
    /\ call.fn = "none"
    /\ call' = [NoCall EXCEPT !.fn = "normalize_phone", !.arg = raw, !.out = normalize_phone(raw)]
    /\ UNCHANGED <<env, user_data, heap, procs, turns, last, pushed, leads, eligible, wa, form>>

\* normalize_phone(p) of a phone p that normalize_phone returned
normalize_phone_again ==
    /\ call.fn = "normalize_phone" /\ call.out # None
    /\ call' = [NoCall EXCEPT !.fn = "normalize_phone_again", !.arg = call.out,
                              !.out = normalize_phone(call.out)]
    /\ UNCHANGED <<env, user_data, heap, procs, turns, last, pushed, leads, eligible, wa, form>>

(***************************************************************************)
(* The intake form.  No file of src/ holds it (main.py registers /start,   *)
(* /id and the text handler only, 502-505), so it is written from the       *)
(* specification: the field normalizers (4.1) and the table of the intake  *)
(* state machine (4.4).                                                    *)
(***************************************************************************)
\* the cap of a plate ("e.g., 10") and its least length
MaxPlateChars == 10
MinPlateChars == 3
\* the caps of the free texts; the specification names no number
MaxModelChars == 100
MaxIssueChars == 900
\* an odometer reading is below 10_000_000: seven digits at most
MaxOdometerDigits == 7

UpperChar(c) ==
    IF c \in (97..122) \cup (1072..1103) THEN c - 32
    ELSE IF c = 1105 THEN 1025
    ELSE c

\* normalizePlate: letters and digits only, uppercase, cut
normalizePlate(raw) ==
    LET Letter(c) == c \in (65..90) \cup (97..122) \cup (1040..1103) \cup {1025, 1105}
        kept == SelectSeq(raw, LAMBDA c : Letter(c) \/ c \in 48..57)
    IN  Take([i \in 1..Len(kept) |-> UpperChar(kept[i])], MaxPlateChars)

\* the number a run of digits 0-9 stands for
RECURSIVE DigitsValue(_)
DigitsValue(ds) == IF ds = <<>> THEN 0 ELSE 10 * DigitsValue(SubSeq(ds, 1, Len(ds) - 1)) + (ds[Len(ds)] - 48)

\* normalizeOdometer: the digits parsed as an integer, None unless strictly within
\* (0, 10_000_000); the number is written <<n>>
normalizeOdometer(raw) ==
    LET ds     == SelectSeq(raw, LAMBDA c : c \in 48..57)
        zeros  == RunEnd(ds, 1, LAMBDA c : c = 48) - 1
        digits == SubSeq(ds, zeros + 1, Len(ds))
    IN  IF digits = <<>> \/ Len(digits) > MaxOdometerDigits THEN None
        ELSE <<DigitsValue(digits)>>

\* the text holds the cancel keyword
HasCancelKeyword(text) == \E i \in 1..Len(text) : LitAt(Lower(text), i, CANCEL_WORD)

\* the form enters state st with the reply r
Enter(f, st, r) ==
    [f EXCEPT !.formState = st, !.trail = Append(@, st), !.reply = r, !.steps = @ + 1]

\* an input is refused: the prompt again, the state as it was
Reprompt(f, r) == [f EXCEPT !.reply = r, !.clean = FALSE, !.steps = @ + 1]

\* a valid input text is stored in field k as value v
Store(f, text, k, v) == [f EXCEPT !.draft[k] = v, !.accepted = Append(@, text)]

\* the explicit "start form" command: the draft is cleared and the phone is asked for;
\* from a form in progress it does the same
StartForm ==
    /\ form' = [Enter(form, "AWAITING_PHONE", "ask_phone") EXCEPT
                   !.draft = EmptyDraft, !.trail = <<"AWAITING_PHONE">>, !.accepted = <<>>,
                   !.clean = (form.formState = "NONE"), !.base = Len(form.records)]
    /\ UNCHANGED <<env, user_data, heap, procs, turns, last, pushed, leads, eligible, wa, call>>

\* the explicit "cancel" command, from any state
CancelForm ==
    /\ form' = [Enter(form, "NONE", "cancelled") EXCEPT !.draft = EmptyDraft, !.clean = FALSE]
    /\ UNCHANGED <<env, user_data, heap, procs, turns, last, pushed, leads, eligible, wa, call>>

\* the record is stored with the next identifier and the operations channel is told
Persisted(f, text) ==
    [Enter(f, "NONE", "stored") EXCEPT
        !.records = Append(@, [id |-> Len(@) + 1, fields |-> f.draft]),
        !.notified = @ + 1, !.draft = EmptyDraft, !.accepted = Append(@, text)]

\* the skip of the plate: the model prompt goes on to the odometer
AfterModelSkipsPlate == "AWAITING_ODOMETER"

\* the state behind AWAITING_MODEL
AfterModel == "AWAITING_PLATE"

\* a text message while a form is in progress, by the row of its state
FormStep(f, text) ==
    CASE f.formState = "AWAITING_PHONE" ->
             IF normalize_phone(text) # None
             THEN Enter(Store(f, text, "phone", normalize_phone(text)), "AWAITING_MODEL", "ask_model")
             ELSE Reprompt(f, "ask_phone")
      [] f.formState = "AWAITING_MODEL" ->
             Enter(Store(f, text, "makeModel", Take(text, MaxModelChars)), AfterModel, "ask_plate")
      [] f.formState = "AWAITING_PLATE" ->
             IF Len(normalizePlate(text)) >= MinPlateChars
             THEN Enter(Store(f, text, "plate", normalizePlate(text)), "AWAITING_ODOMETER",
                        "ask_odometer")
             ELSE Reprompt(f, "ask_plate")
      [] f.formState = "AWAITING_ODOMETER" ->
             IF normalizeOdometer(text) # None
             THEN Enter(Store(f, text, "odometer", normalizeOdometer(text)), "AWAITING_ISSUE",
                        "ask_issue")
             ELSE Reprompt(f, "ask_odometer")
      [] f.formState = "AWAITING_ISSUE" ->
             Enter(Store(f, text, "issue", Take(text, MaxIssueChars)), "AWAITING_CONFIRM", "preview")
      [] f.formState = "AWAITING_CONFIRM" ->
             IF HasCancelKeyword(text)
             THEN [Enter(f, "NONE", "cancelled") EXCEPT !.draft = EmptyDraft, !.clean = FALSE]
             ELSE Persisted(f, text)

FormText(text) ==
    /\ form.formState # "NONE"
    /\ form' = FormStep(form, text)
    /\ UNCHANGED <<env, user_data, heap, procs, turns, last, pushed, leads, eligible, wa, call>>
(***************************************************************************)
(* The specification: the updates of a conversation are handled one at a   *)
(* time (the Application is built with its default, concurrent_updates     *)
(* off, main.py 501), so a handler begins when none is suspended.          *)
(***************************************************************************)
Quiet == \A q \in Procs : procs[q].pc = "idle"
HintChoices == 1..Len(PHONE_HINTS)
\* random.choice is drawn only when maybe_phone_hint appends a hint
HintDraws ==
    IF env.CHANNEL = "whatsapp" \/ Truthy(user_data.phone) \/ user_data.hint_count % HintEvery # 0
    THEN {1}
    ELSE HintChoices
\* the retried statuses the completion API answers with
RetriedStatuses == {429, 503}

Next ==
    \/ Quiet /\ turns < MaxTurns /\ start_cmd(1)
    \/ Quiet /\ turns < MaxTurns /\ id_cmd(1, USER_IVAN)
    \/ \E raw \in Texts, u \in Users, k \in HintDraws :
           Quiet /\ turns < MaxTurns /\ handle_text(1, raw, u, k)
    \/ \E idv \in CrmIds : CrmOk(1, idv)
    \/ \E s \in CrmErrorStatuses : CrmHttpError(1, s, CRM_ERROR_BODY)
    \/ CrmException(1, CRM_EXCEPTION_TEXT)
    \/ \E c \in Contents, k \in HintDraws : AiOk(1, c, k)
    \/ \E s \in RetriedStatuses, k \in HintDraws : AiRetryable(1, s, k)
    \/ \E k \in HintDraws : AiException(1, k)
    \/ \E s \in OtherStatuses, k \in HintDraws : AiOtherStatus(1, s, k)

Spec == Init /\ [][Next]_vars


(***************************************************************************)
(* One call of ai_reply with every outcome of its attempts.  An attempt    *)
(* ends (httpx.AsyncClient(timeout=30), main.py 314) and a sleep ends, so  *)
(* the step of a suspended ai_reply is taken: weak fairness.               *)
(***************************************************************************)
AiAttempt ==
    \/ \E c \in AiContents, k \in HintDraws : AiOk(1, c, k)
    \/ \E s \in RetriedStatuses, k \in HintDraws : AiRetryable(1, s, k)
    \/ \E k \in HintDraws : AiException(1, k)
    \/ \E s \in OtherStatuses, k \in HintDraws : AiOtherStatus(1, s, k)

AiNext ==
    \/ \E raw \in AiTexts, u \in Users, k \in HintDraws :
           Quiet /\ turns < MaxAiTurns /\ handle_text(1, raw, u, k)
    \/ AiAttempt

SpecAi == Init /\ [][AiNext]_vars /\ WF_vars(AiAttempt)

(***************************************************************************)
(* The history over many turns: /start, text messages and the answers of   *)
(* the completion API.                                                     *)
(***************************************************************************)
HistNext ==
    \/ Quiet /\ turns < MaxHistTurns /\ start_cmd(1)
    \/ \E raw \in HistTexts, u \in Users, k \in HintDraws :
           Quiet /\ turns < MaxHistTurns /\ handle_text(1, raw, u, k)
    \/ \E c \in HistContents, k \in HintDraws : AiOk(1, c, k)
    \/ \E k \in HintDraws : AiException(1, k)

SpecHist == Init /\ [][HistNext]_vars

(***************************************************************************)
(* The phone hints over many turns: /start, text messages that reach the   *)
(* completion API and text messages with a phone number.                   *)
(***************************************************************************)
HintNext ==
    \/ Quiet /\ turns < MaxHintTurns /\ start_cmd(1)
    \/ \E raw \in HintTexts, u \in Users, k \in HintDraws :
           Quiet /\ turns < MaxHintTurns /\ handle_text(1, raw, u, k)
    \/ \E idv \in CrmIds : CrmOk(1, idv)
    \/ \E c \in HintContents, k \in HintDraws : AiOk(1, c, k)
    \/ \E s \in OtherStatuses, k \in HintDraws : AiOtherStatus(1, s, k)

SpecHint == Init /\ [][HintNext]_vars

(***************************************************************************)
(* The name step: on WhatsApp a canned answer asks for the name, and the   *)
(* next text message is taken as the name or refused.                      *)
(***************************************************************************)
NameNext ==
    \/ \E raw \in NameTexts, u \in Users, k \in HintDraws :
           Quiet /\ turns < MaxNameTurns /\ handle_text(1, raw, u, k)
    \/ \E idv \in CrmIds : CrmOk(1, idv)
    \/ \E c \in HintContents, k \in HintDraws : AiOk(1, c, k)

SpecName == Init /\ [][NameNext]_vars

(***************************************************************************)
(* Both programs without a key of the completion API: text messages to     *)
(* main.py that reach ai_reply, and requests to wa_server.py, which come   *)
(* in while others are under way.                                          *)
(***************************************************************************)
\* OPENAI_API_KEY is not set
InitNoKey == Init /\ ~env.OPENAI_API_KEY

NoKeyNext ==
    \/ \E raw \in NoKeyTexts, u \in Users, k \in HintDraws :
           Quiet /\ turns < MaxNoKeyTurns /\ handle_text(1, raw, u, k)
    \/ \E msgs \in WaRequests :
           TextsAccepted(wa.reqs) + TextCount(msgs) <= MaxWaCalls /\ incoming(msgs)
    \/ \E r \in DOMAIN wa.reqs : WaSent(r)
    \/ \E r \in DOMAIN wa.reqs : WaSendRaises(r)

SpecNoKey == InitNoKey /\ [][NoKeyNext]_vars

(***************************************************************************)
(* The functions of main.py on their own inputs.                           *)
(***************************************************************************)
PureNext ==
    \/ \E query \in KbQueries : kb_search_call(query)
    \/ \E raw \in PhoneInputs : normalize_phone_call(raw)
    \/ normalize_phone_again

SpecPure == Init /\ [][PureNext]_vars

(***************************************************************************)
(* The intake form: its commands and the text messages it consumes.        *)
(***************************************************************************)
FormNext ==
    \/ form.steps < MaxFormSteps /\ StartForm
    \/ form.steps < MaxFormSteps /\ CancelForm
    \/ \E text \in FormTexts : form.steps < MaxFormSteps /\ FormText(text)

SpecForm == Init /\ [][FormNext]_vars

(***************************************************************************)
(* wa_server.py on payloads of several messages, a request coming in while *)
(* another is under way.  A request to the completion API and a post to    *)
(* the Cloud API end (timeout=30, timeout=15, wa_server.py 32 and 64).     *)
(***************************************************************************)
WaNext ==
    \/ \E data \in WaPayloads :
           /\ Len(wa.reqs) < MaxWaPosts
           /\ TextsAccepted(wa.reqs) + TextCount(WaMessagesOf(data)) <= MaxBatchCalls
           /\ incoming(WaMessagesOf(data))
    \/ \E r \in DOMAIN wa.reqs, c \in WaContents : WaAiOk(r, c)
    \/ \E r \in DOMAIN wa.reqs : WaAiException(r, WA_TIMEOUT_TEXT)
    \/ \E r \in DOMAIN wa.reqs : WaSent(r)
    \/ \E r \in DOMAIN wa.reqs : WaSendRaises(r)

SpecWa == Init /\ [][WaNext]_vars

(***************************************************************************)
(* Text messages on their way to the completion API or to an answer of the *)
(* knowledge base.                                                         *)
(***************************************************************************)
ContextNext ==
    \/ \E raw \in ContextTexts, u \in Users, k \in HintDraws :
           Quiet /\ turns < MaxContextTurns /\ handle_text(1, raw, u, k)
    \/ \E c \in HintContents, k \in HintDraws : AiOk(1, c, k)
    \/ \E k \in HintDraws : AiException(1, k)

SpecContext == Init /\ [][ContextNext]_vars

(***************************************************************************)
(* Properties of the router.                                               *)
(***************************************************************************)
\* what the handler under way has done so far, or what the one that returned last did
Turn == IF procs[1].pc # "idle" THEN procs[1].obs ELSE last

\* C1, as stated: a text message that matches a DIY pattern is answered with exactly
\* DIY_SAFE_REPLY, whatever the session holds (await_name included), and its turn
\* makes no create_inquiry call and no call of the completion API.
C1_DiyAlwaysRefused ==
    (Turn.kind = "text" /\ is_diy_request(Turn.text)) =>
        /\ procs[1].pc = "idle"
        /\ Turn.sent = <<DIY_SAFE_REPLY>>
        /\ Turn.crm_calls = 0
        /\ Turn.ai_calls = 0

\* C1, as amended: the turn of a text message that matches a DIY pattern makes no
\* create_inquiry call and no call of the completion API; it is answered with exactly
\* DIY_SAFE_REPLY when await_name is not set, and is taken by the name step (which
\* sends its thanks or its question again) when await_name is set.
C1_DiyShortCircuit ==
    (Turn.kind = "text" /\ is_diy_request(Turn.text)) =>
        /\ procs[1].pc = "idle"
        /\ Turn.crm_calls = 0
        /\ Turn.ai_calls = 0
        /\ ~Turn.pre.await_name => Turn.branch = <<"diy">> /\ Turn.sent = <<DIY_SAFE_REPLY>>
        /\ Turn.pre.await_name =>
              /\ Turn.branch = <<"name">>
              /\ Turn.sent \in {<<NAME_THANKS_PREFIX \o Turn.text \o NAME_THANKS_SUFFIX>>,
                                <<NAME_REPROMPT>>}

\* a DIY message is refused in a session that already holds a phone
C1_Witness ==
    /\ last.kind = "text" /\ is_diy_request(last.text)
    /\ last.pre.phone # None
    /\ last.sent = <<DIY_SAFE_REPLY>>

\* the fields of the session C2 names
ContactFields(ud) ==
    [phone |-> ud.phone, name |-> ud.name, inquiry_id |-> ud.inquiry_id,
     await_name |-> ud.await_name, hint_count |-> ud.hint_count]

\* C2: when create_inquiry fails in the phone branch (HTTP status error or any other
\* exception) the handler returns and the phone, name, inquiry_id, await_name and
\* hint_count of the session are what they were before the turn.
C2_CrmFailureLeavesSession ==
    (last.kind = "text" /\ last.crm_result \in {"http_error", "exception"}) =>
        ContactFields(user_data) = ContactFields(last.pre)

\* the first branch of the router that applies to a text
RouterBranch(text) ==
    IF is_diy_request(text) THEN "diy"
    ELSE IF env.CHANNEL = "telegram" /\ extract_phone(text) # None THEN "phone"
    ELSE IF quick_intent_answer(text) # None THEN "quick"
    ELSE IF kb_search(text) # None THEN "kb"
    ELSE "ai"

\* C3: a message handled while await_name is not set is handled by exactly one
\* branch, the first that applies in the order DIY, phone, quick intent, FAQ,
\* completion; create_inquiry is called at most once and only in the phone branch,
\* the completion API only in the fallback branch, never both in one turn.
C3_RouterOrder ==
    (Turn.kind = "text" /\ ~Turn.pre.await_name) =>
        /\ Turn.branch = <<RouterBranch(Turn.text)>>
        /\ Turn.crm_calls <= 1
        /\ Turn.crm_calls = 1 => Turn.branch = <<"phone">>
        /\ Turn.ai_calls <= 1
        /\ Turn.ai_calls = 1 => Turn.branch = <<"ai">> /\ Turn.crm_calls = 0
        /\ Turn.http_attempts > 0 => Turn.ai_calls = 1

\* the quick answer is given to a text the knowledge base matches too
C3_Witness ==
    /\ last.kind = "text" /\ ~last.pre.await_name
    /\ last.branch = <<"quick">>
    /\ kb_search(last.text) # None
    /\ last.sent[1] # kb_search(last.text)

\* C4, as stated: a message that holds a valid phone number and a DIY phrase gets
\* the DIY refusal; no create_inquiry call is made and no phone is stored.
C4_DiyBeforePhoneAlways ==
    (Turn.kind = "text" /\ is_diy_request(Turn.text) /\ extract_phone(Turn.text) # None) =>
        /\ Turn.sent = <<DIY_SAFE_REPLY>>
        /\ Turn.crm_calls = 0
        /\ user_data.phone = Turn.pre.phone

\* C4, as amended: a message that holds a valid phone number and a DIY phrase makes
\* no create_inquiry call and stores no phone; handled while await_name is not set
\* it gets the DIY refusal.
C4_DiyBeforePhone ==
    (Turn.kind = "text" /\ is_diy_request(Turn.text) /\ extract_phone(Turn.text) # None) =>
        /\ Turn.crm_calls = 0
        /\ user_data.phone = Turn.pre.phone
        /\ ~Turn.pre.await_name => Turn.sent = <<DIY_SAFE_REPLY>>

\* on Telegram with the CRM configured, a message with a phone and a DIY phrase is refused
C4_Witness ==
    /\ env.CHANNEL = "telegram" /\ env.RO
    /\ last.kind = "text" /\ is_diy_request(last.text) /\ extract_phone(last.text) # None
    /\ last.sent = <<DIY_SAFE_REPLY>>
    /\ user_data.phone = None

(***************************************************************************)
(* Properties of ai_reply.                                                 *)
(***************************************************************************)
\* the outcomes after which ai_reply sleeps and tries again
FailedRetryably(outcomes) ==
    {n \in DOMAIN outcomes : outcomes[n] \in {"retryable", "exception"}}

Returned1 == procs[1].pc = "idle"

C5_Attempts ==
    /\ Turn.http_attempts <= 5
    /\ Turn.http_attempts = Len(Turn.outcomes)
    /\ Turn.sleeps = SubSeq(<<1, 2, 4, 8, 16>>, 1, Cardinality(FailedRetryably(Turn.outcomes)))
    /\ (Returned1 /\ Turn.ai_ret = HIGH_LOAD_REPLY)
           <=> (Len(Turn.outcomes) = 5 /\ FailedRetryably(Turn.outcomes) = 1..5)

\* C5: whatever the completion API answers, one call of ai_reply makes at most 5
\* HTTP attempts and returns; each failure that is retried is followed by a sleep,
\* of 1, 2, 4, 8, 16 seconds in that order; the high-load message is returned
\* exactly when all 5 attempts failed in a retried way.
C5_RetryCappedAndTerminates ==
    /\ []C5_Attempts
    /\ (procs[1].pc = "ai") ~> Returned1

\* five attempts failed, by status and by exception, and the high-load message came back
C5_Witness ==
    /\ Returned1 /\ last.ai_ret = HIGH_LOAD_REPLY
    /\ last.sleeps = <<1, 2, 4, 8, 16>>
    /\ \E n, m \in 1..5 : last.outcomes[n] = "retryable" /\ last.outcomes[m] = "exception"

\* C6: when the completion API answers with a status other than 200, 429, 500, 502,
\* 503, 504, on whichever attempt, ai_reply returns the technical-error message that
\* names the status, without a sleep and without a further attempt.
C6_OtherStatusEndsCall ==
    \A n \in DOMAIN Turn.outcomes :
        Turn.outcomes[n] = "other" =>
            /\ n = Len(Turn.outcomes)
            /\ Returned1
            /\ Turn.ai_status \notin {200, 429, 500, 502, 503, 504}
            /\ Turn.ai_ret = TECH_ERROR_PREFIX \o Decimal(Turn.ai_status)
            /\ Len(Turn.sleeps) = n - 1

\* the third attempt is answered with 401, behind a retried status and an exception
C6_Witness ==
    /\ Returned1
    /\ last.outcomes = <<"retryable", "exception", "other">>
    /\ last.ai_status = 401
    /\ last.sleeps = <<1, 2>>

(***************************************************************************)
(* Properties of the replies.                                              *)
(***************************************************************************)
\* C7: every text message, in every branch and with every outcome of the CRM and
\* of the completion API, is answered with at least one reply of non-empty text.
C7_EveryMessageAnswered ==
    last.kind = "text" => \E n \in DOMAIN last.sent : last.sent[n] # <<>>

\* what the completion-fallback branch can send: a text of ai_reply after
\* sanitize_ai_reply, alone or with a phone hint behind it
FallbackReplies ==
    LET texts == {T_sanitize_ai_reply[a] : a \in DOMAIN T_sanitize_ai_reply}
    IN  texts \cup {r \o HINT_SEPARATOR \o PHONE_HINTS[k] : r \in texts, k \in HintChoices}

\* BOOKING_PHRASES is found in a reply
T_HasBookingPhrase == Table([t \in FallbackReplies |-> HasBookingPhrase(t)])
HoldsBookingPhrase(t) == Memo(T_HasBookingPhrase, t, HasBookingPhrase(t))

\* C8, as stated: while no create_inquiry call has succeeded in the session, no reply
\* sent to the user holds a booking phrase.
C8_NoBookingPhraseBeforeLead ==
    (last.kind = "text" /\ leads = 0) =>
        \A n \in DOMAIN last.sent : ~HoldsBookingPhrase(last.sent[n])

\* C8, as amended: while no create_inquiry call has succeeded in the session, no
\* reply sent from the completion-fallback branch holds a booking phrase.
C8_FallbackReplyStripped ==
    (last.kind = "text" /\ last.branch = <<"ai">> /\ leads = 0) =>
        \A n \in DOMAIN last.sent : ~HoldsBookingPhrase(last.sent[n])

\* the completion API claimed a booking and what was left of its text was sent
C8_Witness ==
    /\ last.kind = "text" /\ last.branch = <<"ai">> /\ leads = 0
    /\ last.ai_raw # None /\ HasBookingPhrase(last.ai_raw)
    /\ last.sent # <<>> /\ last.sent[1] # <<>>

\* a DIY pattern or a repair verb is found in the text
Flagged(text) == is_diy_request_of(text) \/ RepairVerbSearch(Lower(text))

\* Flagged of the content of a 200 answer, whole
T_FlaggedWhole == Table([c \in AllContents |-> Flagged(OrEmpty(c))])
FlaggedWhole(content) == Memo(T_FlaggedWhole, content, Flagged(OrEmpty(content)))

\* Flagged of the content of a 200 answer, stripped and cut to its first 1200 characters
T_FlaggedCut == Table([c \in AllContents |-> Flagged(GeneratedText(c))])
FlaggedCut(content) == Memo(T_FlaggedCut, content, Flagged(GeneratedText(content)))

\* the handler sent the refusal, with nothing but a phone hint behind it
RefusalSent(sent) ==
    /\ Len(sent) = 1
    /\ sent[1] \in {DIY_SAFE_REPLY}
                      \cup {DIY_SAFE_REPLY \o HINT_SEPARATOR \o PHONE_HINTS[k] : k \in HintChoices}

\* the last attempt of the turn was answered with 200
Answered200(obs) == obs.outcomes # <<>> /\ obs.outcomes[Len(obs.outcomes)] = "ok"

\* C9, as stated: when the text the completion API returns matches a DIY pattern or
\* a repair verb, the text sent begins with DIY_SAFE_REPLY unaltered and holds none
\* of the generated text.
C9_FlaggedTextRefused ==
    (last.kind = "text" /\ Answered200(last) /\ FlaggedWhole(last.ai_raw)) =>
        RefusalSent(last.sent)

\* C9, as amended: when the text the completion API returns, stripped and cut to its
\* first 1200 characters, matches a DIY pattern or a repair verb, the text sent
\* begins with DIY_SAFE_REPLY unaltered and holds none of the generated text.
C9_FlaggedCutTextRefused ==
    (last.kind = "text" /\ Answered200(last) /\ FlaggedCut(last.ai_raw)) =>
        RefusalSent(last.sent)

\* a generated repair instruction was replaced, and a phone hint followed the refusal
C9_Witness ==
    /\ last.kind = "text" /\ Answered200(last)
    /\ last.ai_raw = GEN_REPAIR
    /\ \E k \in HintChoices : last.sent = <<DIY_SAFE_REPLY \o HINT_SEPARATOR \o PHONE_HINTS[k]>>

(***************************************************************************)
(* Properties of the history.                                              *)
(***************************************************************************)
\* context.user_data["hist"]
SessionHistory == IF user_data.hist = 0 THEN <<>> ELSE heap[user_data.hist]

\* C10: after any /start commands and text messages the history of the session
\* holds at most 6 turns: the non-empty turns pushed last (since the last /start), in
\* the order they were pushed.
C10_HistoryBoundedFifo ==
    /\ Len(SessionHistory) <= 6
    /\ \A n \in DOMAIN SessionHistory : SessionHistory[n].content # <<>>
    /\ SessionHistory = SubSeq(pushed, IF Len(pushed) > 6 THEN Len(pushed) - 5 ELSE 1, Len(pushed))

\* more than 6 turns were pushed and the oldest are gone
C10_Witness ==
    /\ Len(pushed) > 6
    /\ Len(SessionHistory) = 6
    /\ SessionHistory[1] = pushed[Len(pushed) - 5]
    /\ SessionHistory[1] # pushed[1]
(***************************************************************************)
(* Properties of the phone hint.                                           *)
(***************************************************************************)
\* t ends with s
EndsWith(t, s) == Len(t) >= Len(s) /\ SubSeq(t, Len(t) - Len(s) + 1, Len(t)) = s

\* a reply of the handler carries one of PHONE_HINTS behind the separator
Nudged(obs) ==
    \E n \in DOMAIN obs.sent, k \in HintChoices :
        EndsWith(obs.sent[n], HINT_SEPARATOR \o PHONE_HINTS[k])

\* what C11 says of the handler that returned last, the eligible replies counted
\* from `count` (the reply of that handler included)
NudgeThrottled(count) ==
    /\ IsEligible(last) =>
          /\ Nudged(last) <=> (count - 1) % 3 = 0
          /\ user_data.hint_count = last.pre.hint_count + 1
    /\ (last.kind = "text" /\ ~IsEligible(last)) => user_data.hint_count = last.pre.hint_count
    /\ ~IsEligible(last) => ~Nudged(last)

\* C11, as stated: counting the eligible replies of the session (replies of the
\* completion fallback sent while no phone is stored and the channel is not WhatsApp),
\* the hint is appended to every third of them (the first, the fourth, ...) and to no
\* other reply; hint_count grows by one with an eligible reply and is unchanged by an
\* ineligible one; no reply carries the hint once a phone is stored, or on WhatsApp.
C11_NudgeEveryThirdOfSession == NudgeThrottled(eligible.total)

\* C11, as amended: the same, counting the eligible replies since the last /start (or
\* since the session began when there was none); /start sets hint_count to 0.
C11_NudgeEveryThirdSinceStart ==
    /\ NudgeThrottled(eligible.since_start)
    /\ user_data.hint_count = eligible.since_start
    /\ last.kind = "start" => user_data.hint_count = 0

\* the fourth eligible reply carries the hint, the second and third having gone without
C11_Witness ==
    /\ IsEligible(last) /\ Nudged(last)
    /\ eligible.since_start = 4 /\ eligible.total = 4

\* C12, as stated: no operation on a session (a text message in any branch, /start)
\* makes hint_count smaller.
C12_HintCountMonotonic == [][user_data'.hint_count >= user_data.hint_count]_vars

\* C12, as amended: no text message, in any branch, makes hint_count smaller; /start
\* sets it to 0.
C12_HintCountMonotonicButStart ==
    [][IF last'.kind = "start" /\ turns' # turns
       THEN user_data'.hint_count = 0
       ELSE user_data'.hint_count >= user_data.hint_count]_vars

\* /start has set a hint_count of 2 or more back to 0
C12_Witness ==
    /\ last.kind = "start" /\ last.pre.hint_count >= 2
    /\ user_data.hint_count = 0

(***************************************************************************)
(* Properties of the name step.                                            *)
(***************************************************************************)
\* what C13 says looks_like_name holds of: a text that is not empty, from which no
\* phone is extracted, of at most 4 words and at most 40 characters
NameLike(text) ==
    /\ text # <<>>
    /\ extract_phone_of(text) = None
    /\ Len(Split(text)) <= 4
    /\ Len(text) <= 40

\* a text message arrives while await_name is set
NameStepBegins == Quiet /\ user_data.await_name /\ turns' # turns /\ last'.kind = "text"

\* C13: while await_name is set the next text message is taken by the name step
\* alone, which returns with no CRM call and no completion call.  A text that looks
\* like a name is stored as the name, the flag is cleared and the thanks are sent;
\* any other text leaves the flag set and the name as it was, and the question is
\* sent again.  The phone, inquiry_id, hint_count and the history stay as they were.
C13_NameStepFrame ==
    [][NameStepBegins =>
          /\ procs'[1].pc = "idle"
          /\ last'.branch = <<"name">>
          /\ last'.crm_calls = 0 /\ last'.ai_calls = 0 /\ last'.http_attempts = 0
          /\ leads' = leads
          /\ IF NameLike(last'.text)
             THEN /\ user_data'.name = last'.text
                  /\ ~user_data'.await_name
                  /\ last'.sent = <<NAME_THANKS_PREFIX \o last'.text \o NAME_THANKS_SUFFIX>>
             ELSE /\ user_data'.name = user_data.name
                  /\ user_data'.await_name
                  /\ last'.sent = <<NAME_REPROMPT>>
          /\ user_data'.phone = user_data.phone
          /\ user_data'.inquiry_id = user_data.inquiry_id
          /\ user_data'.hint_count = user_data.hint_count
          /\ SessionHistory' = SessionHistory
          /\ pushed' = pushed]_vars

\* on the third turn a word of exactly 40 characters was taken as the name
C13_Witness ==
    /\ last.kind = "text" /\ last.pre.await_name /\ last.branch = <<"name">>
    /\ last.text = MSG_FORTY
    /\ user_data.name = MSG_FORTY /\ ~user_data.await_name
    /\ turns = 3

(***************************************************************************)
(* The completion fallback without a key.                                  *)
(***************************************************************************)
\* without a key no ai_reply call of either program makes an HTTP attempt, and none is
\* left waiting or ended by an exception: each has returned a text; in main.py that
\* text is NO_KEY_REPLY whatever the message and the history
NoKeyNoRequest ==
    ~env.OPENAI_API_KEY =>
        /\ procs[1].pc # "ai" /\ \A r \in DOMAIN wa.reqs : wa.reqs[r].pc # "ai"
        /\ last.ai_calls > 0 =>
              /\ last.ai_ret = NO_KEY_REPLY
              /\ last.http_attempts = 0 /\ last.outcomes = <<>>
        /\ \A n \in DOMAIN wa.returns : wa.returns[n].attempts = 0 /\ wa.returns[n].ret # None

\* C14, as stated: when no completion-API key is configured, every ai_reply call (in
\* main.py and in wa_server.py) returns the same fixed string regardless of the user
\* text and history, makes zero HTTP attempts, and never raises.
C14_NoKeyFixedReply ==
    /\ NoKeyNoRequest
    /\ ~env.OPENAI_API_KEY =>
          \A n, m \in DOMAIN wa.returns : wa.returns[n].ret = wa.returns[m].ret

\* C14, as amended: when no completion-API key is configured, every ai_reply call (in
\* main.py and in wa_server.py) makes zero HTTP attempts and never raises; in main.py it
\* returns the same fixed string regardless of the user text and history, and in
\* wa_server.py it returns the user text behind the fixed prefix "Эхо: ".
C14_NoKeyDeterministicReply ==
    /\ NoKeyNoRequest
    /\ ~env.OPENAI_API_KEY =>
          \A n \in DOMAIN wa.returns :
              wa.returns[n].ret = WA_ECHO_PREFIX \o wa.returns[n].text

\* without a key main.py has answered a second message, not the text of the first, and
\* wa_server.py has answered two messages of different texts
C14_Witness ==
    /\ ~env.OPENAI_API_KEY
    /\ turns = 2 /\ last.ai_calls = 1 /\ last.text = MSG_NAME /\ last.pre.hist # 0
    /\ Len(pushed) >= 3 /\ pushed[1].content = MSG_HELLO
    /\ Len(wa.returns) = 2 /\ wa.returns[1].text # wa.returns[2].text
    /\ Len(wa.sent) = 2

(***************************************************************************)
(* Properties of kb_search.                                                *)
(***************************************************************************)
\* the canonical tokens of a query, as a set
QueryTokens(query) == ToSet(canonical_tokens(query))

\* the overlap of a query with entry n: the tokens of the query that are tokens of the
\* entry's tags and title
Overlap(query, n) == Cardinality(QueryTokens(query) \cap KbTokenSets[n])

\* the entry of the highest overlap, the earliest of them
Selected(query) ==
    CHOOSE n \in DOMAIN KB :
        /\ \A m \in DOMAIN KB : Overlap(query, m) <= Overlap(query, n)
        /\ \A m \in 1..(n - 1) : Overlap(query, m) < Overlap(query, n)

\* C15: for every query, kb_search scores each entry by the size of the intersection of
\* the canonical token set of the query with that of the entry's tags and title, and
\* selects the entry of the strictly highest score, the earliest-declared entry winning
\* ties (what it returns is None or the answer of that entry).  A query whose overlap is
\* exactly 2 with one entry and below 2 with every other returns that entry's answer; a
\* query with zero overlap with every entry returns None.
C15_KbSelection ==
    call.fn = "kb_search" =>
        LET q == call.arg
            s == Selected(q)
        IN  /\ call.best[1] = Overlap(q, s)
            /\ call.best[1] > 0 => call.best[2] = KB[s].answer
            /\ call.out \in {None, KB[s].answer}
            /\ \A n \in DOMAIN KB :
                  (Overlap(q, n) = 2 /\ \A m \in DOMAIN KB \ {n} : Overlap(q, m) < 2)
                      => call.out = KB[n].answer
            /\ (\A n \in DOMAIN KB : Overlap(q, n) = 0) => call.out = None

\* kb_search has returned the first entry for a query that overlaps in two tokens with
\* the first and with the fourth entry
C15_Witness ==
    /\ call.fn = "kb_search" /\ call.arg = Q_WHEN \o <<32>> \o Q_TIME
    /\ Overlap(call.arg, 1) = 2 /\ Overlap(call.arg, 4) = 2
    /\ call.out = KB[1].answer

\* the entries of the tow and of the address intent, with the canonical token of each
TOW_ENTRY == 3
ADDRESS_ENTRY == 2

\* C16: kb_search accepts an entry at score 1 only when that entry is the pickup/tow or
\* the address intent (the query carries that intent's canonical token and the returned
\* answer is that intent's answer); every other knowledge-base entry is returned only
\* at score 2 or more.
C16_ScoreOneOnlyForIntent ==
    (call.fn = "kb_search" /\ call.out # None) =>
        \/ call.best[1] >= KbThreshold
        \/ /\ call.best[1] = KbIntentThreshold
           /\ \/ W_evakuator \in QueryTokens(call.arg) /\ call.out = KB[TOW_ENTRY].answer
              \/ W_adres \in QueryTokens(call.arg) /\ call.out = KB[ADDRESS_ENTRY].answer

(***************************************************************************)
(* Properties of normalize_phone.                                          *)
(***************************************************************************)
\* the characters of raw that re.sub(r"\D", "", raw) leaves
DigitsLeft(raw) == SelectSeq(raw, IsDigit)

\* the result is None or "+" and the digits of the input in their order; None exactly
\* when the count of the digits is outside 7..15; the empty string gives None and
\* "+27 71 234 5678" gives "+27712345678"; a result normalized again is unchanged
NormalizeResult ==
    /\ call.fn \in {"normalize_phone", "normalize_phone_again"} =>
          /\ call.out \in {None, <<43>> \o DigitsLeft(call.arg)}
          /\ call.out = None <=> Len(DigitsLeft(call.arg)) \notin 7..15
          /\ call.arg = <<>> => call.out = None
          /\ call.arg = PHONE_SPACED => call.out = PHONE_PLAIN
    /\ call.fn = "normalize_phone_again" => call.out = call.arg

\* t matches ^\+[0-9]+$
PlusAsciiDigits(t) == Len(t) >= 2 /\ t[1] = 43 /\ \A i \in 2..Len(t) : t[i] \in 48..57

\* C17: for every input string the result of normalize_phone is either None or "+"
\* followed by exactly the input's digit characters in their original order (so it
\* matches ^\+[0-9]+$); the empty string gives None; "+27 71 234 5678" gives
\* "+27712345678"; None is returned exactly when the number of digits left after
\* stripping is outside 7..15; and normalizing a non-None result returns it unchanged.
C17_NormalizeShape ==
    /\ NormalizeResult
    /\ (call.fn \in {"normalize_phone", "normalize_phone_again"} /\ call.out # None)
          => PlusAsciiDigits(call.out)

(***************************************************************************)
(* Properties of the intake form.                                          *)
(***************************************************************************)
\* the states of a form in their order, and NONE behind them
FormOrder ==
    <<"AWAITING_PHONE", "AWAITING_MODEL", "AWAITING_PLATE", "AWAITING_ODOMETER",
      "AWAITING_ISSUE", "AWAITING_CONFIRM", "NONE">>

\* the record of the inputs a: each value as its normalizer gives it
RecordOf(a) ==
    [phone |-> normalize_phone(a[1]), makeModel |-> Take(a[2], MaxModelChars),
     plate |-> normalizePlate(a[3]), odometer |-> normalizeOdometer(a[4]),
     issue |-> Take(a[5], MaxIssueChars)]

\* C18: starting from no active form, for any sequence of valid inputs start-form
\* command, phone, model, plate, odometer, issue, "yes", the session passes through
\* AWAITING_PHONE, AWAITING_MODEL, AWAITING_PLATE, AWAITING_ODOMETER, AWAITING_ISSUE,
\* AWAITING_CONFIRM in that order and ends in state NONE with exactly one record
\* persisted that contains all five submitted values (after normalization) and an
\* empty draft.  form.clean says that the form was started from NONE and that every
\* input since was valid; form.accepted holds those inputs.
C18_FormHappyPath ==
    form.clean =>
        LET k == Len(form.accepted)
        IN  /\ k <= 6
            /\ form.trail = SubSeq(FormOrder, 1, k + 1)
            /\ form.formState = FormOrder[k + 1]
            /\ k < 6 => Len(form.records) = form.base
            /\ k = 6 =>
                  /\ form.formState = "NONE"
                  /\ form.draft = EmptyDraft
                  /\ Len(form.records) = form.base + 1
                  /\ form.records[Len(form.records)].fields = RecordOf(form.accepted)
                  /\ \A f \in DOMAIN EmptyDraft :
                        form.records[Len(form.records)].fields[f] # None

\* "CA123456"
PLATE_NORMAL == <<67, 65, 49, 50, 51, 52, 53, 54>>

\* a form started from NONE has taken a phone, a model, a plate, an odometer reading,
\* an issue and "yes", and has stored its one record
C18_Witness ==
    /\ form.clean
    /\ form.accepted = <<PHONE_SPACED, F_MODEL, F_PLATE, F_ODOMETER, F_ISSUE, F_YES>>
    /\ form.formState = "NONE" /\ Len(form.records) = 1
    /\ form.records[1].fields.phone = PHONE_PLAIN
    /\ form.records[1].fields.plate = PLATE_NORMAL
    /\ form.records[1].fields.odometer = <<15000>>

(***************************************************************************)
(* Properties of the lead creation and of the channels.                    *)
(***************************************************************************)
\* the handler with observation obs met the conditions of the phone branch: Telegram,
\* a CRM client, await_name not set, no DIY request, a phone in the text
LeadDue(obs) ==
    /\ obs.kind = "text"
    /\ env.CHANNEL = "telegram" /\ env.RO
    /\ ~obs.pre.await_name
    /\ ~is_diy_request(obs.text)
    /\ extract_phone(obs.text) # None

\* C19: on the Telegram channel with the CRM configured and await_name not set, every
\* non-DIY message from which a phone is extracted triggers exactly one createInquiry
\* call, whether or not the session already stores a phone or an inquiry id (so the
\* same phone in two messages gives two calls), and inquiry_id holds the id returned by
\* the most recent successful call: the id the reply of that call reports, kept by a
\* call that fails.
C19_NoIdempotency ==
    /\ \A p \in Procs : procs[p].pc = "crm" => LeadDue(procs[p].obs) /\ procs[p].obs.crm_calls = 1
    /\ LeadDue(last) =>
          /\ last.crm_calls = 1
          /\ last.crm_req.contact_phone = extract_phone(last.text)
          /\ last.crm_result = "ok" =>
                last.sent = << CRM_OK_PREFIX \o FormatId(user_data.inquiry_id) \o CRM_OK_PHONE
                                  \o last.crm_req.contact_phone \o CRM_OK_NAME
                                  \o last.crm_req.contact_name \o CRM_OK_SUFFIX >>
          /\ last.crm_result \in {"http_error", "exception"} =>
                user_data.inquiry_id = last.pre.inquiry_id
    /\ (last.kind = "text" /\ ~LeadDue(last)) => last.crm_calls = 0

\* the same phone came in two messages: the second call was made while the session held
\* the phone and the id 101 of the first, it succeeded too, and inquiry_id is the id of
\* the second answer (which carries none)
C19_Witness ==
    /\ turns = 2 /\ leads = 2 /\ LeadDue(last)
    /\ last.pre.phone = extract_phone(last.text) /\ last.pre.inquiry_id = <<101>>
    /\ last.crm_calls = 1 /\ last.crm_result = "ok"
    /\ user_data.inquiry_id = None

\* what the handlers of the conversation have stored and done so far, the one under
\* way included
AnyCrmCall == leads > 0 \/ last.crm_calls > 0 \/ \E p \in Procs : procs[p].obs.crm_calls > 0

\* C20: in every reachable state, if the channel is telegram then await_name is never
\* set to true (the name step and every "ask for name" suffix are unreachable, the
\* await_name assignment inside the phone branch included); if the channel is whatsapp
\* then no phone is ever extracted or stored, no createInquiry call is ever made and
\* inquiry_id is never set.
C20_ChannelPartition ==
    /\ env.CHANNEL = "telegram" =>
          /\ ~user_data.await_name
          /\ "name" \notin ToSet(last.branch)
          /\ \A n \in DOMAIN last.sent :
                /\ last.sent[n] # ASK_NAME
                /\ ~EndsWith(last.sent[n], ASK_NAME_SUFFIX)
    /\ env.CHANNEL = "whatsapp" =>
          /\ user_data.phone = None
          /\ user_data.inquiry_id = None
          /\ "phone" \notin ToSet(last.branch)
          /\ \A p \in Procs : procs[p].phone = None /\ procs[p].pc # "crm"
          /\ ~AnyCrmCall

\* on WhatsApp with a CRM client a message that holds a phone number went to the
\* completion fallback, and the session holds no phone
C20_Witness ==
    /\ env.CHANNEL = "whatsapp" /\ env.RO
    /\ last.text = MSG_PHONE /\ extract_phone(last.text) # None
    /\ last.branch = <<"ai">> /\ last.crm_calls = 0
    /\ user_data.phone = None

(***************************************************************************)
(* Properties of the request to the completion API.                        *)
(***************************************************************************)
\* the observations of the handlers that built a request: the one that returned last
\* and the one under way
Requests ==
    {o \in {last} \cup {procs[p].obs : p \in Procs} : o.ai_req # <<>>}

\* C21: whenever handle_text reaches ai_reply, kb_search has already returned None for
\* the same text in that turn (the handler took neither the knowledge-base branch nor
\* a branch before it), so the kb_search call inside ai_reply returns None too and the
\* context block sent to the completion API is always the "no facts" placeholder.
C21_ContextAlwaysPlaceholder ==
    /\ \A o \in {last} \cup {procs[p].obs : p \in Procs} :
          o.ai_calls > 0 => o.branch = <<"ai">> /\ kb_search(o.text) = None
    /\ \A o \in Requests :
          /\ o.ai_calls = 1
          /\ o.ai_req[2] = [role |-> "assistant", content |-> CONTEXT_NONE]

\* a request was sent for a text that shares one token with an entry of the knowledge
\* base, below the score kb_search asks for
C21_Witness ==
    /\ last.ai_req # <<>> /\ last.http_attempts > 0
    /\ last.text = W_chasy
    /\ KbBest(ToSet(canonical_tokens(last.text)), 1, <<0, None>>)[1] = 1

\* the most messages a request holds: the system prompt, the context block, MAX_HISTORY
\* turns and the user text
MaxRequestMessages == 9

\* C22: when handle_text reaches the completion fallback with a non-empty text, the
\* history passed to ai_reply already ends with the current user message, so the
\* message list sent to the completion API is system prompt, context block, at most 6
\* history turns, then the user text again; it has at most 9 entries and its last two
\* entries are both the current user text.
C22_RequestShape ==
    \A o \in Requests :
        o.text # <<>> =>
            LET req     == o.ai_req
                n       == Len(req)
                history == SubSeq(req, 3, n - 1)
                current == [role |-> "user", content |-> Take(o.text, MaxTurnChars)]
            IN  /\ n >= 4 /\ n <= MaxRequestMessages
                /\ req[1] = [role |-> "system", content |-> SYSTEM_PROMPT]
                /\ req[2].role = "assistant"
                /\ SubSeq(req[2].content, 1, Len(CONTEXT_PREFIX)) = CONTEXT_PREFIX
                /\ Len(history) >= 1 /\ Len(history) <= MAX_HISTORY
                /\ \A i \in DOMAIN history : history[i].role \in {"user", "assistant"}
                /\ history[Len(history)] = current
                /\ req[n] = current /\ req[n - 1] = current

\* the fourth message of a conversation reached the completion API with a history of
\* six turns, the oldest one dropped: the request holds nine messages
C22_Witness ==
    /\ turns = 4 /\ last.text = MSG_HELLO /\ last.http_attempts > 0
    /\ Len(last.ai_req) = MaxRequestMessages
    /\ last.ai_req[3].role = "assistant"

(***************************************************************************)
(* Properties of the webhook of wa_server.py.                              *)
(***************************************************************************)
\* the text messages of request r, in payload order
TextMessages(r) == SelectSeq(wa.reqs[r].request, LAMBDA m : m.type = "text")

\* the ai_reply calls of request r that returned and the replies it posted, in the
\* order it happened
BatchReturns(r) == SelectSeq(wa.returns, LAMBDA e : e.req = r)
BatchSent(r) == SelectSeq(wa.sent, LAMBDA e : e.req = r)

\* C23: for one POST to /whatsapp/webhook whose sends do not raise, the handler walks
\* the messages in payload order, calls ai_reply once and sends exactly one reply to
\* the sender for each message of type text, sends nothing for any other message type,
\* completes each message's reply before starting the next, and returns status ok; an
\* ai_reply failure is turned into a reply text rather than aborting the batch.  It
\* holds of every request, whatever other requests are under way.
C23_BatchInOrder ==
    \A r \in DOMAIN wa.reqs :
        /\ Len(BatchReturns(r)) <= Len(TextMessages(r))
        \* the k-th call is for the k-th text message, the k-th reply is what that call
        \* returned and goes to the sender of that message
        /\ \A k \in DOMAIN BatchReturns(r) : BatchReturns(r)[k].text = TextMessages(r)[k].body
        /\ \A k \in DOMAIN BatchSent(r) :
              BatchSent(r)[k] = [req |-> r, to |-> TextMessages(r)[k].from,
                                 body |-> BatchReturns(r)[k].ret]
        \* a call begins when every reply before it has been posted
        /\ wa.reqs[r].pc = "ai" =>
              /\ Len(BatchReturns(r)) = Len(BatchSent(r))
              /\ Len(BatchSent(r)) < Len(TextMessages(r))
        /\ wa.reqs[r].pc = "send" => Len(BatchReturns(r)) = Len(BatchSent(r)) + 1
        \* the handler ends with status ok and every text message answered, unless a
        \* send raised
        /\ wa.reqs[r].pc = "done" =>
              \/ /\ wa.reqs[r].status = "post_raised"
                 /\ Len(BatchReturns(r)) = Len(BatchSent(r)) + 1
              \/ /\ wa.reqs[r].status = "ok"
                 /\ Len(BatchReturns(r)) = Len(TextMessages(r))
                 /\ Len(BatchSent(r)) = Len(TextMessages(r))

\* with a key, a payload of two entries with three messages, one of them no text, was
\* handled to its end while a request that came in behind it was answered before its
\* second reply: the first ai_reply call failed and its text was sent, the second was
\* answered
C23_Witness ==
    /\ Len(wa.reqs) = 2
    /\ wa.reqs[1].pc = "done" /\ wa.reqs[1].status = "ok"
    /\ Len(wa.reqs[1].request) = 3 /\ Len(TextMessages(1)) = 2
    /\ TextMessages(1)[1].body = MSG_HOURS /\ TextMessages(1)[2].body = MSG_DIY
    /\ Len(BatchSent(1)) = 2
    /\ BatchSent(1)[1].body = WA_PAUSE_PREFIX \o WA_TIMEOUT_TEXT
    /\ BatchReturns(1)[2].attempts = 1 /\ BatchSent(1)[2].body # WA_PAUSE_PREFIX \o WA_TIMEOUT_TEXT
    /\ Len(wa.sent) = 3 /\ wa.sent[2].req = 2
=============================================================================
